---- MODULE Spec2Model ----
(***************************************************************************)
(* Model of the incremental synchronisation cycle of the Hacker News       *)
(* mirror: DataSyncService.syncUpdates (internal/cronjob/dataSync.go)      *)
(* with the collaborators it calls: the Redis dedup cache                  *)
(* (internal/redis), the Kafka producers (internal/kafka), the item        *)
(* models' IsValid methods (internal/models) and the repositories'         *)
(* CreateBatchWithExistingIDs (internal/repository/postgres).              *)
(*                                                                         *)
(* One cycle: the main goroutine receives the result of                    *)
(* updateService.FetchUpdates, starts one goroutine per item id and per    *)
(* profile name, waits for all of them (wg.Wait), starts one goroutine     *)
(* per non-empty collection, waits for those (saveWg.Wait) and returns.    *)
(* Every goroutine is a little state machine with a pc; the actions below  *)
(* are the steps between its blocking calls.  The Source Gateway, the      *)
(* store, the message bus and Redis are the environment: each call draws   *)
(* its outcome from a small set.                                           *)
(*                                                                         *)
(* Specifications:                                                         *)
(*   Spec      the cycles of one process, one after the other              *)
(*   SchedSpec the runs of sync-updates that Start and registerJobs launch *)
(*   LiveSpec  cycles without end over one frontier, with fairness         *)
(*   TwinSpec  one cycle's work run with a cache and with an empty cache   *)
(*   RepoSpec  the calls of a client on one repository                     *)
(*   MgrSpec   concurrent calls on one CronJobManager                      *)
(*   TallySpec the tally of cached ids kept by the units of one cycle      *)
(***************************************************************************)
EXTENDS Integers, Sequences, FiniteSets, TLC

\* ------------------------------------------------------------------------
\* Bounds of the model.
MaxIDs == 2
MaxProfiles == 1
MaxUnits == 2
MaxItemID == 2
MaxCycles == 2

ItemIDs == 1..MaxItemID
UserNames == {"alice"}

\* Sequences over S of length at most n.
RECURSIVE SeqsUpTo(_, _)
SeqsUpTo(S, n) ==
  IF n = 0 THEN {<<>>}
  ELSE LET shorter == SeqsUpTo(S, n - 1)
       IN  shorter \cup {Append(s, x) : s \in {t \in shorter : Len(t) = n - 1}, x \in S}

SeqToSet(s) == {s[i] : i \in 1..Len(s)}

\* ------------------------------------------------------------------------
\* Entity classes.  The item classes are named by the raw discriminant the
\* switch of syncUpdates dispatches on.
ItemClasses == {"story", "ask", "comment", "job", "poll", "pollopt"}
UserClass == "user"
AllClasses == ItemClasses \cup {UserClass}

\* The literal each model's IsValid compares Type with.
ExpectedType(c) ==
  CASE c = "story"   -> "Story"
    [] c = "ask"     -> "Ask"
    [] c = "comment" -> "Comment"
    [] c = "job"     -> "Job"
    [] c = "poll"    -> "Poll"
    [] c = "pollopt" -> "PollOption"

\* A routing that sends the stories to the jobs' topic and the jobs to the
\* stories' topic.
TopicOfSwapped(c) ==
  CASE c = "story"   -> "JobsTopic"
    [] c = "ask"     -> "AsksTopic"
    [] c = "comment" -> "CommentsTopic"
    [] c = "job"     -> "StoriesTopic"
    [] c = "poll"    -> "PollsTopic"
    [] c = "pollopt" -> "PollOptionsTopic"
    [] c = "user"    -> "UsersTopic"

\* The topic each persistence goroutine passes to the producer.
TopicOf(c) ==
  CASE c = "story"   -> "StoriesTopic"
    [] c = "ask"     -> "AsksTopic"
    [] c = "comment" -> "CommentsTopic"
    [] c = "job"     -> "JobsTopic"
    [] c = "poll"    -> "PollsTopic"
    [] c = "pollopt" -> "PollOptionsTopic"
    [] c = "user"    -> "UsersTopic"

Topics == {TopicOf(c) : c \in AllClasses}

\* The Redis key each class is cached under (itemsRedisKey, userRedisKey).
itemsRedisKey == "ids"
userRedisKey == "user_ids"

\* ------------------------------------------------------------------------
\* Source Gateway payloads.  A payload is the JSON object of /item/<id>.json
\* reduced to the fields the models decode.
GoodPayload(i, t) ==
  [id |-> i, type |-> t, title |-> "X", text |-> "T", by |-> "alice",
   time |-> 1000, poll |-> 7]

Defects == {"none", "id", "title", "text", "by", "time", "poll"}

Damage(p, d) ==
  CASE d = "none"  -> p
    [] d = "id"    -> [p EXCEPT !.id = 0]
    [] d = "title" -> [p EXCEPT !.title = ""]
    [] d = "text"  -> [p EXCEPT !.text = ""]
    [] d = "by"    -> [p EXCEPT !.by = ""]
    [] d = "time"  -> [p EXCEPT !.time = 0]
    [] d = "poll"  -> [p EXCEPT !.poll = 0]

\* The item classes the remote source holds records of during one run of the
\* process: one of these sets.
ServedChoices == {{"story", "job"}, {"pollopt"}}

\* The "type" values the gateway may put into a payload when the source
\* holds the classes S: the lower-case tags of the remote API and the
\* capitalised ones the models expect.
GatewayTypes(S) == S \cup {ExpectedType(c) : c \in S}

ItemPayloads(i, S) == {Damage(GoodPayload(i, t), d) : t \in GatewayTypes(S), d \in Defects}

\* The discriminants the raw fetch may report: rawItem["type"].(string).
RawTypes(S) == S \cup {"other"}

\* Environment: per username, the karma the remote source reports now.
VARIABLE source

\* The document of /user/<n>.json when the source reports karma k.
ProfileAt(n, k) ==
  [id |-> n, karma |-> k, about |-> "bio", created |-> 1000, submitted |-> <<>>]

GoodProfile(n) == ProfileAt(n, source[n])

ProfileDefects == {"none", "id", "karma", "about", "created"}

DamageProfile(p, d) ==
  CASE d = "none"    -> p
    [] d = "id"      -> [p EXCEPT !.id = ""]
    [] d = "karma"   -> [p EXCEPT !.karma = -1]
    [] d = "about"   -> [p EXCEPT !.about = ""]
    [] d = "created" -> [p EXCEPT !.created = 0]

ProfilePayloads(n) == {DamageProfile(GoodProfile(n), d) : d \in ProfileDefects}

\* ------------------------------------------------------------------------
\* json.Decode of a payload into the struct of class c: the struct keeps the
\* fields its json tags name.
DecodeItem(c, p) ==
  CASE c \in {"story", "ask", "job", "poll"} ->
         [ID |-> p.id, Type |-> p.type, Title |-> p.title, Author |-> p.by,
          Created_At |-> p.time]
    [] c = "comment" ->
         [ID |-> p.id, Type |-> p.type, Text |-> p.text, Author |-> p.by,
          Created_At |-> p.time]
    [] c = "pollopt" ->
         [ID |-> p.id, Type |-> p.type, PollID |-> p.poll, Author |-> p.by,
          OptionText |-> p.text, CreatedAt |-> p.time]

DecodeUser(p) ==
  [Username |-> p.id, Karma |-> p.karma, About |-> p.about, Created_At |-> p.created,
   Submitted |-> p.submitted]

\* The IsValid methods of the models.
StoryIsValid(s) ==
  s.ID > 0 /\ s.Type = "Story" /\ s.Title # "" /\ s.Author # "" /\ s.Created_At > 0

AskIsValid(a) ==
  a.ID > 0 /\ a.Type = "Ask" /\ a.Title # "" /\ a.Author # "" /\ a.Created_At > 0

CommentIsValid(c) ==
  c.ID > 0 /\ c.Type = "Comment" /\ c.Text # "" /\ c.Author # "" /\ c.Created_At > 0

JobIsValid(j) ==
  j.ID > 0 /\ j.Type = "Job" /\ j.Title # "" /\ j.Author # "" /\ j.Created_At > 0

PollIsValid(p) ==
  p.ID > 0 /\ p.Type = "Poll" /\ p.Title # "" /\ p.Author # "" /\ p.Created_At > 0

PollOptionIsValid(po) ==
  po.ID > 0 /\ po.Type = "PollOption" /\ po.PollID > 0 /\ po.OptionText # ""
    /\ po.CreatedAt > 0

UserIsValid(u) ==
  u.Username # "" /\ u.About # "" /\ u.Karma >= 0 /\ u.Created_At > 0

\* A validity test that does not look at the tag.
AnyTagIsValid(c, r) == r.ID > 0

IsValid(c, r) ==
  CASE c = "story"   -> StoryIsValid(r)
    [] c = "ask"     -> AskIsValid(r)
    [] c = "comment" -> CommentIsValid(r)
    [] c = "job"     -> JobIsValid(r)
    [] c = "poll"    -> PollIsValid(r)
    [] c = "pollopt" -> PollOptionIsValid(r)

\* ------------------------------------------------------------------------
\* Redis.  A key is either missing or holds the string last SET; the strings
\* written here are JSON documents, modelled by their parsed form.
JSONNull == [kind |-> "null", elems |-> <<>>]

\* json.Marshal of a slice: a nil slice gives null, any other an array.
Marshal(ids) == IF ids = <<>> THEN JSONNull ELSE [kind |-> "array", elems |-> ids]

\* json.Unmarshal into a slice: null gives the nil slice.
Unmarshal(j) == IF j.kind = "array" THEN j.elems ELSE <<>>

RedisNil == [set |-> FALSE, val |-> JSONNull]

\* rdb.Set(ctx, key, value, 0): the key holds exactly the new value.
RedisSet(db, key, value) == [db EXCEPT ![key] = [set |-> TRUE, val |-> value]]

\* redis.CacheID / redis.CacheUserIDs: marshal the list and SET the key.
\* fault: the SET fails.
CacheID(db, key, ids, fault) ==
  IF fault THEN [db |-> db, err |-> TRUE]
  ELSE [db |-> RedisSet(db, key, Marshal(ids)), err |-> FALSE]

CacheUserIDs(db, key, ids, fault) ==
  IF fault THEN [db |-> db, err |-> TRUE]
  ELSE [db |-> RedisSet(db, key, Marshal(ids)), err |-> FALSE]

\* redis.IsItemInCache: GET the key, unmarshal the list, scan it.
\* fault: the GET fails with an error other than redis.Nil.
IsItemInCache(db, key, targetID, fault) ==
  IF fault THEN [exists |-> FALSE, err |-> TRUE]
  ELSE IF ~db[key].set THEN [exists |-> FALSE, err |-> FALSE]
  ELSE LET ids == Unmarshal(db[key].val)
       IN  [exists |-> \E k \in 1..Len(ids) : ids[k] = targetID, err |-> FALSE]

IsUserIDInCache(db, key, targetID, fault) ==
  IF fault THEN [exists |-> FALSE, err |-> TRUE]
  ELSE IF ~db[key].set THEN [exists |-> FALSE, err |-> FALSE]
  ELSE LET ids == Unmarshal(db[key].val)
       IN  [exists |-> \E k \in 1..Len(ids) : ids[k] = targetID, err |-> FALSE]

\* ------------------------------------------------------------------------
\* Durable store.  A table is the set of its rows.
StoreFaults == {"none", "begin", "prepare", "exec", "commit"}

\* An insert with no ON CONFLICT clause and no key on id.
InsertAlways(rows, r) == rows \cup {r}

\* An insert that replaces the row of the same id.
InsertReplacing(rows, r) == {x \in rows : x.ID # r.ID} \cup {r}

\* INSERT ... ON CONFLICT (id) DO NOTHING
InsertDoNothing(rows, r) ==
  IF \E x \in rows : x.ID = r.ID THEN rows ELSE rows \cup {r}

\* An insert that leaves the row of the same username as it is.
InsertUserIfAbsent(rows, u) ==
  IF \E x \in rows : x.Username = u.Username THEN rows ELSE rows \cup {u}

\* INSERT ... ON CONFLICT (username) DO UPDATE SET karma, about, created_at,
\* submitted_ids: the row of the username holds the new values.
InsertOrUpdateUser(rows, u) ==
  {x \in rows : x.Username # u.Username} \cup {u}

RECURSIVE ExecAll(_, _, _)
ExecAll(c, rows, batch) ==
  IF batch = <<>> THEN rows
  ELSE ExecAll(c,
               IF c = UserClass THEN InsertOrUpdateUser(rows, Head(batch))
               ELSE InsertDoNothing(rows, Head(batch)),
               Tail(batch))

\* The contract of the batch upsert of the repositories whose
\* CreateBatchWithExistingIDs is declared in the repository interfaces only
\* (asks, polls): all-or-nothing, insert-if-absent.
UpsertBatchContract(c, rows, batch, fault) ==
  IF fault # "none" THEN [rows |-> rows, err |-> TRUE]
  ELSE [rows |-> ExecAll(c, rows, batch), err |-> FALSE]

\* The rows of the batch the loop has executed when the function returns:
\* none when BeginTx or PrepareContext fails, all but the last when the
\* ExecContext of the last row fails, all when Commit fails.
Executed(batch, fault) ==
  CASE fault \in {"begin", "prepare"} -> <<>>
    [] fault = "exec" -> SubSeq(batch, 1, Len(batch) - 1)
    [] OTHER -> batch

\* The rows before the first poll option that fails IsValid.
ValidPrefix(batch) ==
  LET bad == {k \in 1..Len(batch) : ~PollOptionIsValid(batch[k])}
  IN  IF bad = {} THEN batch
      ELSE SubSeq(batch, 1, (CHOOSE k \in bad : \A j \in bad : k <= j) - 1)

\* A transaction whose work stays in the table when the function returns
\* an error.
RollbackKeepsWork(before, work) == work

\* defer tx.Rollback(): an error return leaves the table as it was before
\* BeginTx.
Rollback(before, work) == before

\* CreateBatchWithExistingIDs of the story, comment, job, poll option and
\* user repositories: one transaction, rolled back (defer tx.Rollback) on
\* every error return.
CreateBatchWithExistingIDs(c, rows, batch, fault) ==
  IF c \in {"ask", "poll"} THEN UpsertBatchContract(c, rows, batch, fault)
  ELSE IF c \in {"comment", "pollopt"} /\ batch = <<>> THEN [rows |-> rows, err |-> FALSE]
  ELSE IF fault \in {"begin", "prepare"}
       THEN [rows |-> Rollback(rows, rows), err |-> TRUE]
  ELSE IF c = "pollopt" /\ ValidPrefix(batch) # batch
       THEN [rows |-> Rollback(rows, ExecAll(c, rows, ValidPrefix(batch))), err |-> TRUE]
  ELSE IF fault # "none"
       THEN [rows |-> Rollback(rows, ExecAll(c, rows, Executed(batch, fault))), err |-> TRUE]
  ELSE [rows |-> ExecAll(c, rows, batch), err |-> FALSE]

\* ------------------------------------------------------------------------
\* Message bus.
DigitChars == <<"0", "1", "2", "3", "4", "5", "6", "7", "8", "9">>

\* fmt.Appendf(nil, "%d", id) for id >= 0
RECURSIVE Itoa(_)
Itoa(n) ==
  IF n < 10 THEN DigitChars[n + 1]
  ELSE Itoa(n \div 10) \o DigitChars[(n % 10) + 1]

KafkaFaults == {"none", "dial", "write", "close"}

\* kafka.NewItemProducer: dial, write one message per id, close.  Each
\* failure ends in log.Fatal, which exits the process; the function never
\* returns a non-nil error.  sent: the messages that reached the topic.
NewItemProducer(ids, fault) ==
  LET msgs == [k \in 1..Len(ids) |-> Itoa(ids[k])]
  IN  CASE fault = "none"  -> [sent |-> msgs, fatal |-> FALSE, err |-> FALSE]
        [] fault = "dial"  -> [sent |-> <<>>, fatal |-> TRUE, err |-> FALSE]
        [] fault = "write" -> [sent |-> <<>>, fatal |-> TRUE, err |-> FALSE]
        [] fault = "close" -> [sent |-> msgs, fatal |-> TRUE, err |-> FALSE]

\* kafka.NewUserIDProducer: the same with []byte(id) as the message.
NewUserIDProducer(ids, fault) ==
  CASE fault = "none"  -> [sent |-> ids, fatal |-> FALSE, err |-> FALSE]
    [] fault = "dial"  -> [sent |-> <<>>, fatal |-> TRUE, err |-> FALSE]
    [] fault = "write" -> [sent |-> <<>>, fatal |-> TRUE, err |-> FALSE]
    [] fault = "close" -> [sent |-> ids, fatal |-> TRUE, err |-> FALSE]

\* ------------------------------------------------------------------------
\* State.
VARIABLES
  phase,       \* main goroutine of the process: "idle" (between cycles),
               \* "collect" (at wg.Wait), "save" (at saveWg.Wait), "exited"
  cycle,       \* number of cycles started so far
  update,      \* the models.Update of this cycle: [IDs, Profiles]
  frontier,    \* how the frontier step of this cycle ended: "none", "err", "empty", "ok"
  items,       \* the item goroutines of this cycle, one per index of update.IDs
  profs,       \* the profile goroutines, one per index of update.Profiles
  mu,          \* the sync.Mutex of the cycle: its holder, or NoHolder
  recs,        \* stories, asks, comments, jobs, polls, pollOptions, users
  ids,         \* storiesIDs, asksIDs, ..., userIDs
  err,         \* the err variable of syncUpdates, shared by the save goroutines
  task,        \* pc of each class's save goroutine
  store,       \* the tables of the durable store, one per class
  redisDB,     \* the keys of Redis
  topicLog,    \* per topic, the messages written to it so far
  hist,        \* observation: what the save goroutines of this cycle did
  seen,        \* observation: what the goroutines of the two loops met
  served,      \* environment: the item classes the remote source holds
  sched,       \* the scheduler of the process and the runs of sync-updates
  repo,        \* a repository under test: its tables and the call made on it
  twin,        \* two runs of one cycle's work that differ in the cache only
  mgr,         \* a CronJobManager and the goroutines that call it
  tally        \* the tally of cached ids of one cycle and the goroutines that write it

\* The variables the cycle does not touch.
sideVars == <<sched, repo, twin, source, mgr, tally>>

\* The variables of the cycle.
cycleVars == <<phase, cycle, update, frontier, items, profs, mu, recs, ids, err, task,
               store, redisDB, topicLog, hist, seen, served>>

vars == <<cycleVars, sideVars>>

NoSched == [at |-> "off"]
NoRepo == [at |-> "off"]
NoTwin == [at |-> "off"]
NoMgr == [at |-> "off"]
NoTally == [at |-> "off"]

SourceAtStart == [n \in UserNames |-> 10]

NoHolder == [kind |-> "none", ix |-> 0]
NoRec == <<>>
NoSnap == [recs |-> <<>>, ids |-> <<>>]

NewItemUnit(id) ==
  [id |-> id, pc |-> "start", itemType |-> "", rec |-> NoRec, snap |-> NoSnap,
   fetches |-> 0, out |-> "", echo |-> FALSE]

NewProfUnit(id) ==
  [id |-> id, pc |-> "start", rec |-> NoRec, snap |-> NoSnap, fetches |-> 0, out |-> ""]

NoHist ==
  [upsert  |-> [c \in AllClasses |-> "none"],
   publish |-> [c \in AllClasses |-> "none"],
   mark    |-> [c \in AllClasses |-> "none"]]

\* skipped: some goroutine ended without a cache hit and without an append;
\* echo: the ids whose raw fetch said "story" and whose typed fetch returned
\* the complete payload with that same tag; rerun: this cycle got the update
\* of the cycle before it, which had completed without a failure or a skip.
NoSeen == [skipped |-> FALSE, echo |-> {}, rerun |-> FALSE]

EmptyUpdate == [IDs |-> <<>>, Profiles |-> <<>>]

\* The process before its first cycle.
CycleInit ==
  /\ phase = "idle"
  /\ cycle = 0
  /\ update = EmptyUpdate
  /\ frontier = "none"
  /\ items = <<>>
  /\ profs = <<>>
  /\ mu = NoHolder
  /\ recs = [c \in AllClasses |-> <<>>]
  /\ ids = [c \in AllClasses |-> <<>>]
  /\ err = "nil"
  /\ task = [c \in AllClasses |-> "off"]
  /\ store = [c \in AllClasses |-> {}]
  /\ redisDB = [k \in {itemsRedisKey, userRedisKey} |-> RedisNil]
  /\ topicLog = [t \in Topics |-> {}]
  /\ hist = NoHist
  /\ seen = NoSeen

Init ==
  /\ CycleInit
  /\ served \in ServedChoices
  /\ sched = NoSched
  /\ repo = NoRepo
  /\ twin = NoTwin
  /\ source = SourceAtStart
  /\ mgr = NoMgr
  /\ tally = NoTally

\* No call of the save goroutines of this cycle failed.
NoSaveFailure ==
  \A c \in AllClasses :
    hist.upsert[c] # "fail" /\ hist.publish[c] # "fatal" /\ hist.mark[c] # "fail"

\* The cycle at hand has completed with every unit cached or collected and
\* every call succeeding.
CleanCycle ==
  phase = "idle" /\ frontier = "ok" /\ ~seen.skipped /\ NoSaveFailure

\* ------------------------------------------------------------------------
\* The frontier step of syncUpdates.  The call d.updateService.FetchUpdates
\* returns (update, nil) or (_, err); syncUpdates returns on err and on an
\* empty update.IDs, otherwise it declares the locals of the cycle and
\* starts the goroutines of both loops.
Updates ==
  {u \in {[IDs |-> i, Profiles |-> p] : i \in SeqsUpTo(ItemIDs, MaxIDs),
                                        p \in SeqsUpTo(UserNames, MaxProfiles)} :
     Len(u.IDs) + Len(u.Profiles) <= MaxUnits}

\* A frontier step that goes on after a failed fetch.
ReturnsEarlyOnEmptyOnly(res) == ~res.err /\ res.update.IDs = <<>>

\* if err != nil { return }; if len(update.IDs) == 0 { return }
ReturnsEarly(res) == res.err \/ res.update.IDs = <<>>

\* syncUpdates from the return of FetchUpdates to the start of the
\* goroutines of both loops.
BeginCycle(res) ==
  /\ phase = "idle"
  /\ mu' = NoHolder
  /\ recs' = [c \in AllClasses |-> <<>>]
  /\ ids' = [c \in AllClasses |-> <<>>]
  /\ task' = [c \in AllClasses |-> "off"]
  /\ hist' = NoHist
  /\ err' = IF res.err THEN "frontier" ELSE "nil"
  /\ frontier' = IF res.err THEN "err"
                 ELSE IF res.update.IDs = <<>> THEN "empty" ELSE "ok"
  /\ IF ReturnsEarly(res)
       THEN /\ phase' = "idle"
            /\ update' = IF res.err THEN EmptyUpdate ELSE res.update
            /\ items' = <<>>
            /\ profs' = <<>>
            /\ seen' = NoSeen
       ELSE /\ phase' = "collect"
            /\ update' = res.update
            /\ items' = [k \in 1..Len(res.update.IDs) |-> NewItemUnit(res.update.IDs[k])]
            /\ profs' = [k \in 1..Len(res.update.Profiles) |->
                           NewProfUnit(res.update.Profiles[k])]
            /\ seen' = [NoSeen EXCEPT !.rerun = (CleanCycle /\ res.update = update)]
  /\ UNCHANGED <<store, redisDB, topicLog, served, sideVars>>

StartCycle(res) ==
  /\ cycle < MaxCycles
  /\ cycle' = cycle + 1
  /\ BeginCycle(res)

SyncUpdates ==
  \E res \in {[err |-> TRUE, update |-> EmptyUpdate]}
             \cup {[err |-> FALSE, update |-> u] : u \in Updates} :
    StartCycle(res)

\* ------------------------------------------------------------------------
\* The goroutine of one item id (first loop of syncUpdates).
ItemHolder(k) == [kind |-> "item", ix |-> k]
ProfHolder(k) == [kind |-> "prof", ix |-> k]

\* A Lock() that returns whether or not the mutex is held.
LockFreeAlways(m) == TRUE

\* A Lock() that never returns.
LockNeverFree(m) == FALSE

\* mu.Lock() returns only while no goroutine holds the mutex.
LockFree(m) == m = NoHolder

RawOutcomes(S) == {"err", "notype"} \cup RawTypes(S)

\* The unit of one item without the early return on a cache hit.
ResolveItemIgnoringHit(u, db, cacheFault, raw, typedErr, p) ==
  LET look == IsItemInCache(db, itemsRedisKey, u.id, cacheFault)
      r == DecodeItem(raw, p)
  IN  IF look.err THEN [u EXCEPT !.pc = "done", !.out = "cacheErr"]
      ELSE IF raw = "err"
        THEN [u EXCEPT !.pc = "done", !.out = "rawErr", !.fetches = 1]
      ELSE IF raw = "notype"
        THEN [u EXCEPT !.pc = "done", !.out = "noType", !.fetches = 1]
      ELSE IF raw \notin ItemClasses
        THEN [u EXCEPT !.pc = "done", !.out = "noCase", !.fetches = 1]
      ELSE IF typedErr
        THEN [u EXCEPT !.pc = "done", !.out = "typedErr", !.fetches = 2,
                       !.itemType = raw]
      ELSE IF ~IsValid(raw, r)
        THEN [u EXCEPT !.pc = "done", !.out = "invalid", !.fetches = 2,
                       !.itemType = raw, !.echo = (p = GoodPayload(u.id, raw))]
      ELSE [u EXCEPT !.pc = "lock", !.fetches = 2, !.itemType = raw, !.rec = r,
                     !.echo = (p = GoodPayload(u.id, raw))]

\* A unit that logs the error of the cache lookup and goes on to fetch.
ResolveItemPastLookupError(u, db, cacheFault, raw, typedErr, p) ==
  LET r == ResolveItemIgnoringHit(u, db, FALSE, raw, typedErr, p)
  IN  IF cacheFault
        THEN IF r.pc = "done" THEN [r EXCEPT !.out = "cacheErr"] ELSE r
      ELSE IF IsItemInCache(db, itemsRedisKey, u.id, FALSE).exists
        THEN [u EXCEPT !.pc = "done", !.out = "cached"]
      ELSE r

\* The unit of one item up to its mu.Lock(): the cache lookup and its two
\* early returns, the raw fetch and rawItem["type"].(string), the switch,
\* and the typed fetch of the case with its condition
\* err == nil && x.IsValid().  None of these calls reads or writes memory
\* shared with another goroutine, and Redis is not written while the units
\* run, so the unit takes them in one step.  The result is the unit as it
\* stands at mu.Lock() or at its return.
\* cacheFault: the GET fails; raw: what the raw fetch gives; typedErr: the
\* typed fetch fails; p: the payload of the typed fetch.
ResolveItem(u, db, cacheFault, raw, typedErr, p) ==
  LET look == IsItemInCache(db, itemsRedisKey, u.id, cacheFault)
      r == DecodeItem(raw, p)
  IN  IF look.err THEN [u EXCEPT !.pc = "done", !.out = "cacheErr"]
      ELSE IF look.exists THEN [u EXCEPT !.pc = "done", !.out = "cached"]
      ELSE IF raw = "err"
        THEN [u EXCEPT !.pc = "done", !.out = "rawErr", !.fetches = 1]
      ELSE IF raw = "notype"
        THEN [u EXCEPT !.pc = "done", !.out = "noType", !.fetches = 1]
      ELSE IF raw \notin ItemClasses
        THEN [u EXCEPT !.pc = "done", !.out = "noCase", !.fetches = 1]
      ELSE IF typedErr
        THEN [u EXCEPT !.pc = "done", !.out = "typedErr", !.fetches = 2,
                       !.itemType = raw]
      ELSE IF ~IsValid(raw, r)
        THEN [u EXCEPT !.pc = "done", !.out = "invalid", !.fetches = 2,
                       !.itemType = raw, !.echo = (p = GoodPayload(u.id, raw))]
      ELSE [u EXCEPT !.pc = "lock", !.fetches = 2, !.itemType = raw, !.rec = r,
                     !.echo = (p = GoodPayload(u.id, raw))]

ItemResolve(k) ==
  /\ phase = "collect"
  /\ k \in DOMAIN items
  /\ items[k].pc = "start"
  /\ \E r \in {ResolveItem(items[k], redisDB, cacheFault, raw, typedErr, p) :
                  cacheFault \in BOOLEAN, raw \in RawOutcomes(served),
                  typedErr \in BOOLEAN, p \in ItemPayloads(items[k].id, served)} :
       items' = [items EXCEPT ![k] = r]
  /\ UNCHANGED <<phase, cycle, update, frontier, profs, mu, recs, ids, err, task,
                 store, redisDB, topicLog, hist, seen, served, sideVars>>

\* mu.Lock(); the appends that follow read the two slices of the class.
ItemLock(k) ==
  /\ phase = "collect"
  /\ k \in DOMAIN items
  /\ items[k].pc = "lock"
  /\ LockFree(mu)
  /\ mu' = ItemHolder(k)
  /\ items' = [items EXCEPT ![k].pc = "append",
                            ![k].snap = [recs |-> recs[items[k].itemType],
                                         ids |-> ids[items[k].itemType]]]
  /\ UNCHANGED <<phase, cycle, update, frontier, profs, recs, ids, err, task,
                 store, redisDB, topicLog, hist, seen, served, sideVars>>

\* An id list that grows at its head.
PrependID(l, key) == <<key>> \o l

\* xsIDs = append(xsIDs, x.ID)
AppendID(l, key) == Append(l, key)

\* xs = append(xs, x); xsIDs = append(xsIDs, x.ID); mu.Unlock()
ItemAppend(k) ==
  /\ phase = "collect"
  /\ k \in DOMAIN items
  /\ items[k].pc = "append"
  /\ recs' = [recs EXCEPT ![items[k].itemType] = Append(items[k].snap.recs, items[k].rec)]
  /\ ids' = [ids EXCEPT ![items[k].itemType] = AppendID(items[k].snap.ids, items[k].rec.ID)]
  /\ mu' = NoHolder
  /\ items' = [items EXCEPT ![k].pc = "done", ![k].out = "appended", ![k].snap = NoSnap]
  /\ UNCHANGED <<phase, cycle, update, frontier, profs, err, task,
                 store, redisDB, topicLog, hist, seen, served, sideVars>>

\* ------------------------------------------------------------------------
\* The goroutine of one profile name (second loop of syncUpdates), up to its
\* mu.Lock(): redis.IsUserIDInCache, apiClient.Get("/user/<id>.json", &user)
\* and user.IsValid().
ResolveProf(u, db, cacheFault, fetchErr, p) ==
  LET look == IsUserIDInCache(db, userRedisKey, u.id, cacheFault)
      r == DecodeUser(p)
  IN  IF look.err THEN [u EXCEPT !.pc = "done", !.out = "cacheErr"]
      ELSE IF look.exists THEN [u EXCEPT !.pc = "done", !.out = "cached"]
      ELSE IF fetchErr
        THEN [u EXCEPT !.pc = "done", !.out = "fetchErr", !.fetches = 1]
      ELSE IF ~UserIsValid(r)
        THEN [u EXCEPT !.pc = "done", !.out = "invalid", !.fetches = 1]
      ELSE [u EXCEPT !.pc = "lock", !.fetches = 1, !.rec = r]

ProfResolve(k) ==
  /\ phase = "collect"
  /\ k \in DOMAIN profs
  /\ profs[k].pc = "start"
  /\ \E r \in {ResolveProf(profs[k], redisDB, cacheFault, fetchErr, p) :
                  cacheFault \in BOOLEAN, fetchErr \in BOOLEAN,
                  p \in ProfilePayloads(profs[k].id)} :
       profs' = [profs EXCEPT ![k] = r]
  /\ UNCHANGED <<phase, cycle, update, frontier, items, mu, recs, ids, err, task,
                 store, redisDB, topicLog, hist, seen, served, sideVars>>

ProfLock(k) ==
  /\ phase = "collect"
  /\ k \in DOMAIN profs
  /\ profs[k].pc = "lock"
  /\ LockFree(mu)
  /\ mu' = ProfHolder(k)
  /\ profs' = [profs EXCEPT ![k].pc = "append",
                            ![k].snap = [recs |-> recs[UserClass], ids |-> ids[UserClass]]]
  /\ UNCHANGED <<phase, cycle, update, frontier, items, recs, ids, err, task,
                 store, redisDB, topicLog, hist, seen, served, sideVars>>

\* users = append(users, user); userIDs = append(userIDs, user.Username); mu.Unlock()
ProfAppend(k) ==
  /\ phase = "collect"
  /\ k \in DOMAIN profs
  /\ profs[k].pc = "append"
  /\ recs' = [recs EXCEPT ![UserClass] = Append(profs[k].snap.recs, profs[k].rec)]
  /\ ids' = [ids EXCEPT ![UserClass] = AppendID(profs[k].snap.ids, profs[k].rec.Username)]
  /\ mu' = NoHolder
  /\ profs' = [profs EXCEPT ![k].pc = "done", ![k].out = "appended", ![k].snap = NoSnap]
  /\ UNCHANGED <<phase, cycle, update, frontier, items, err, task,
                 store, redisDB, topicLog, hist, seen, served, sideVars>>

\* ------------------------------------------------------------------------
\* wg.Wait() returns when every goroutine of both loops has ended; the main
\* goroutine then starts one save goroutine per non-empty collection.  The
\* goroutines of the loops are gone by then; seen keeps what the later
\* observations need of them.
\* A wg.Wait() that returns while goroutines of the loops still run.
WaitReturnsAtOnce == TRUE

AllUnitsDone ==
  /\ \A k \in DOMAIN items : items[k].pc = "done"
  /\ \A k \in DOMAIN profs : profs[k].pc = "done"

FanIn ==
  /\ phase = "collect"
  /\ AllUnitsDone
  /\ phase' = "save"
  /\ task' = [c \in AllClasses |-> IF Len(recs[c]) > 0 THEN "upsert" ELSE "off"]
  /\ seen' = [seen EXCEPT
                !.skipped = \/ \E k \in DOMAIN items : items[k].out \notin {"cached", "appended"}
                            \/ \E k \in DOMAIN profs : profs[k].out \notin {"cached", "appended"},
                !.echo = {items[k].id : k \in {j \in DOMAIN items :
                                                 items[j].echo /\ items[j].itemType = "story"}}]
  /\ items' = <<>>
  /\ profs' = <<>>
  /\ UNCHANGED <<cycle, update, frontier, mu, recs, ids, err, store, redisDB, topicLog, hist, served, sideVars>>

\* The ids of the rows of a batch (usernames for the user class).
KeyOf(c, r) == IF c = UserClass THEN r.Username ELSE r.ID

BatchKeys(c, batch) == {KeyOf(c, batch[k]) : k \in 1..Len(batch)}

\* err = xRepo.CreateBatchWithExistingIDs(ctx, xPtrs): the result is assigned
\* to the err of the enclosing function, which all save goroutines share.
SaveUpsert(c) ==
  /\ phase = "save"
  /\ task[c] = "upsert"
  /\ \E fault \in StoreFaults :
       LET r == CreateBatchWithExistingIDs(c, store[c], recs[c], fault)
       IN  /\ store' = [store EXCEPT ![c] = r.rows]
           /\ err' = IF r.err THEN c ELSE "nil"
           /\ hist' = [hist EXCEPT !.upsert[c] = IF r.err THEN "fail" ELSE "ok"]
  /\ task' = [task EXCEPT ![c] = "check"]
  /\ UNCHANGED <<phase, cycle, update, frontier, items, profs, mu, recs, ids,
                 redisDB, topicLog, seen, served, sideVars>>

Produce(c, fault) ==
  IF c = UserClass THEN NewUserIDProducer(ids[c], fault) ELSE NewItemProducer(ids[c], fault)

\* if err != nil { log ... } else { if err := kafka.NewItemProducer(topic,
\* xsIDs); err != nil { log ... } else { ... } }: the goroutine reads the
\* shared err and, on nil, calls the producer.  Between the read and the
\* call it touches nothing another goroutine writes, so it is one step.
SavePublish(c) ==
  /\ phase = "save"
  /\ task[c] = "check"
  /\ IF err # "nil"
       THEN /\ task' = [task EXCEPT ![c] = "done"]
            /\ UNCHANGED <<phase, topicLog, hist, served, sideVars>>
       ELSE \E fault \in KafkaFaults :
              LET r == Produce(c, fault)
              IN  /\ topicLog' = [topicLog EXCEPT ![TopicOf(c)] = @ \cup SeqToSet(r.sent)]
                  /\ hist' = [hist EXCEPT !.publish[c] = IF r.fatal THEN "fatal"
                                                         ELSE IF r.err THEN "fail" ELSE "ok"]
                  /\ phase' = IF r.fatal THEN "exited" ELSE phase
                  /\ task' = [task EXCEPT ![c] = IF r.fatal THEN "check"
                                                 ELSE IF r.err THEN "done" ELSE "cache"]
  /\ UNCHANGED <<cycle, update, frontier, items, profs, mu, recs, ids, err,
                 store, redisDB, seen, served, sideVars>>

\* A cache write that also deletes the key of the other namespace.
MarkAndDropOther(c, fault) ==
  IF c = UserClass
    THEN LET r == CacheUserIDs(redisDB, userRedisKey, ids[c], fault)
         IN  [r EXCEPT !.db[itemsRedisKey] = RedisNil]
    ELSE LET r == CacheID(redisDB, itemsRedisKey, ids[c], fault)
         IN  [r EXCEPT !.db[userRedisKey] = RedisNil]

Mark(c, fault) ==
  IF c = UserClass THEN CacheUserIDs(redisDB, userRedisKey, ids[c], fault)
  ELSE CacheID(redisDB, itemsRedisKey, ids[c], fault)

\* redis.CacheID(ctx, itemsRedisKey, xsIDs) / redis.CacheUserIDs(...): the
\* returned error is dropped.
SaveCache(c) ==
  /\ phase = "save"
  /\ task[c] = "cache"
  /\ \E fault \in BOOLEAN :
       LET r == Mark(c, fault)
       IN  /\ redisDB' = r.db
           /\ hist' = [hist EXCEPT !.mark[c] = IF r.err THEN "fail" ELSE "ok"]
  /\ task' = [task EXCEPT ![c] = "done"]
  /\ UNCHANGED <<phase, cycle, update, frontier, items, profs, mu, recs, ids, err,
                 store, topicLog, seen, served, sideVars>>

\* saveWg.Wait() returns when every save goroutine has ended; syncUpdates
\* logs the totals and returns.
AllTasksDone == \A c \in AllClasses : task[c] \in {"off", "done"}

FinishCycle ==
  /\ phase = "save"
  /\ AllTasksDone
  /\ phase' = "idle"
  /\ UNCHANGED <<cycle, update, frontier, items, profs, mu, recs, ids, err, task,
                 store, redisDB, topicLog, hist, seen, served, sideVars>>

\* ------------------------------------------------------------------------
Next ==
  \/ SyncUpdates
  \/ \E k \in 1..MaxIDs : ItemResolve(k)
  \/ \E k \in 1..MaxIDs : ItemLock(k)
  \/ \E k \in 1..MaxIDs : ItemAppend(k)
  \/ \E k \in 1..MaxProfiles : ProfResolve(k)
  \/ \E k \in 1..MaxProfiles : ProfLock(k)
  \/ \E k \in 1..MaxProfiles : ProfAppend(k)
  \/ FanIn
  \/ \E c \in AllClasses : SaveUpsert(c)
  \/ \E c \in AllClasses : SavePublish(c)
  \/ \E c \in AllClasses : SaveCache(c)
  \/ FinishCycle

Spec == Init /\ [][Next]_vars

\* ------------------------------------------------------------------------
\* Observations used by the properties.

\* The answers of the dedup cache (lookups that do not fail).
InItemsCache(id) == IsItemInCache(redisDB, itemsRedisKey, id, FALSE).exists

InProfilesCache(name) == IsUserIDInCache(redisDB, userRedisKey, name, FALSE).exists

InCache(c, key) == IF c = UserClass THEN InProfilesCache(key) ELSE InItemsCache(key)

CachedItems == {i \in 0..MaxItemID : InItemsCache(i)}

CachedProfiles == {n \in UserNames \cup {""} : InProfilesCache(n)}

\* The message a key is published as.
MessageOf(c, key) == IF c = UserClass THEN key ELSE Itoa(key)

StoredKeys(c) == {KeyOf(c, r) : r \in store[c]}

\* syncUpdates has returned from a cycle that got past the frontier step.
CycleEnd == phase = "idle" /\ frontier = "ok"

\* The fan-in barrier: every unit has ended, wg.Wait() is about to return.
AtBarrier == phase = "collect" /\ AllUnitsDone

\* The validity rules of the data model, for a record held in class c.
MandatoryText(c, r) ==
  CASE c \in {"story", "ask", "job", "poll"} -> r.Title
    [] c = "comment" -> r.Text
    [] c = "pollopt" -> r.OptionText

TimeOf(c, r) == IF c = "pollopt" THEN r.CreatedAt ELSE r.Created_At

MeetsValidityRules(c, r) ==
  /\ r.ID > 0
  /\ r.Type = ExpectedType(c)
  /\ r.Author # ""
  /\ TimeOf(c, r) > 0
  /\ MandatoryText(c, r) # ""

\* ------------------------------------------------------------------------
\* C1: a class whose batch upsert returned an error is not published and
\* none of its ids is written to the dedup cache in that cycle.
C1_FailedUpsertNeitherPublishedNorMarked ==
  \A c \in AllClasses :
    hist.upsert[c] = "fail" => hist.publish[c] = "none" /\ hist.mark[c] = "none"

\* C2: at the end of a cycle in which the upsert of class a failed and the
\* upsert of another class b succeeded (and neither the producer nor the
\* cache write of b failed), the ids of b are on b's topic and in the dedup
\* cache.
C2_FailureOfOneClassSparesTheOther ==
  CycleEnd =>
    \A a, b \in AllClasses :
      (a # b /\ hist.upsert[a] = "fail" /\ hist.upsert[b] = "ok"
         /\ hist.publish[b] # "fatal" /\ hist.mark[b] # "fail")
      => /\ hist.publish[b] = "ok"
         /\ \A k \in 1..Len(ids[b]) :
              /\ MessageOf(b, ids[b][k]) \in topicLog[TopicOf(b)]
              /\ InCache(b, ids[b][k])

\* C3: every id in the items cache has a row written by a successful batch
\* upsert of some class and is on that class's topic; every username in the
\* profiles cache has a user row and is on the users topic.
C3_CachedOnlyAfterStoreAndPublish ==
  /\ \A i \in CachedItems :
       \E c \in ItemClasses :
         i \in StoredKeys(c) /\ MessageOf(c, i) \in topicLog[TopicOf(c)]
  /\ \A n \in CachedProfiles :
       n \in StoredKeys(UserClass) /\ MessageOf(UserClass, n) \in topicLog[TopicOf(UserClass)]

\* C4: at the end of a cycle, every id of a class whose upsert and
\* publication succeeded (and whose cache write did not fail) is in the
\* dedup cache.
C4_CompletedClassesAreMarked ==
  CycleEnd =>
    \A c \in AllClasses :
      (hist.upsert[c] = "ok" /\ hist.publish[c] = "ok" /\ hist.mark[c] = "ok")
      => \A k \in 1..Len(ids[c]) : InCache(c, ids[c][k])

\* C5: a cycle that gets the update of the cycle before it, which had
\* completed with every unit collected and every call succeeding, makes no
\* store write and no publication.
C5_RerunWritesNothing ==
  seen.rerun =>
    \A c \in AllClasses : hist.upsert[c] = "none" /\ hist.publish[c] = "none"

\* C6: an id or username that is in the dedup cache stays in it.
C6_CacheMembershipMonotone ==
  [][/\ \A i \in 0..MaxItemID : InItemsCache(i) => InItemsCache(i)'
     /\ \A n \in UserNames : InProfilesCache(n) => InProfilesCache(n)']_vars

\* C7: a unit whose id or username is in the dedup cache when it looks it up
\* makes no request to the source gateway.
C7_CachedUnitsFetchNothing ==
  phase = "collect" =>
    /\ \A k \in DOMAIN items :
         (items[k].pc # "start" /\ InItemsCache(items[k].id)) => items[k].fetches = 0
    /\ \A k \in DOMAIN profs :
         (profs[k].pc # "start" /\ InProfilesCache(profs[k].id)) => profs[k].fetches = 0

C7_Witness ==
  /\ \E k \in DOMAIN items : items[k].out = "cached"
  /\ \E k \in DOMAIN items : items[k].out = "appended" /\ items[k].fetches = 2

\* C8: every record of a batch handed to the durable store meets the
\* validity rules of the data model.
C8_BatchesHoldOnlyValidRecords ==
  \A c \in ItemClasses :
    hist.upsert[c] # "none" =>
      \A k \in 1..Len(recs[c]) : MeetsValidityRules(c, recs[c][k])

\* C9: a cycle in which no store or producer call failed and in which the
\* raw fetch of an uncached id said "story" and the typed fetch returned the
\* complete story payload ends with a story row of that id, the id on the
\* stories topic and the id in the items cache.
C9_StoryRoundTrip ==
  (CycleEnd /\ NoSaveFailure) =>
    \A i \in seen.echo :
      /\ i \in StoredKeys("story")
      /\ Itoa(i) \in topicLog[TopicOf("story")]
      /\ InItemsCache(i)

\* C10: at the fan-in barrier each class's collection holds exactly the
\* records of the units that were dispatched to that class and found valid,
\* each as often as such units produced it, and the id list has the same
\* length.
Occurrences(s, x) == Cardinality({k \in 1..Len(s) : s[k] = x})

AppendedUnits(c) ==
  {k \in DOMAIN items : items[k].out = "appended" /\ items[k].itemType = c}

C10_CollectionsExactAtBarrier ==
  AtBarrier =>
    \A c \in ItemClasses :
      /\ Len(recs[c]) = Cardinality(AppendedUnits(c))
      /\ Len(ids[c]) = Cardinality(AppendedUnits(c))
      /\ \A k \in 1..Len(recs[c]) : recs[c][k].Type = ExpectedType(c)
      /\ \A j \in AppendedUnits(c) :
           Occurrences(recs[c], items[j].rec)
             = Cardinality({h \in AppendedUnits(c) : items[h].rec = items[j].rec})

C10_Witness ==
  /\ AtBarrier
  /\ Len(recs["story"]) = 1
  /\ Len(recs["job"]) = 1

\* ------------------------------------------------------------------------
\* C11: the step of a cycle whose frontier fetch failed ends the cycle at
\* once: no goroutine of either loop exists (so no lookup and no fetch is
\* made), no save goroutine is started, nothing is recorded as upserted,
\* published or marked, and the store, Redis and the topics are unchanged.
C11_FailedFrontierEndsCycle ==
  [][(cycle' # cycle /\ frontier' = "err") =>
       /\ phase' = "idle"
       /\ items' = <<>> /\ profs' = <<>>
       /\ \A c \in AllClasses : task'[c] = "off"
       /\ hist' = NoHist
       /\ UNCHANGED <<store, redisDB, topicLog>>]_vars

C11_Witness ==
  /\ frontier = "err"
  /\ cycle = MaxCycles
  /\ store["job"] # {}
  /\ InItemsCache(1)

\* C12: no failure of a call made for an item or for a class ends the
\* process.
C12_ProcessSurvivesFailures == phase # "exited"

\* ------------------------------------------------------------------------
\* The scheduling of sync-updates: DataSyncService.Start and registerJobs.
\* registerJobs starts the task once in a goroutine of its own
\* (go job.task()) and registers it with the scheduler as a
\* gocron.DurationJob of 10 seconds, with no option that limits the job to
\* one run at a time; Start then starts the scheduler.  Run 0 is the
\* immediate run, run k the run of the k-th tick.  A run is "fetch" while in
\* FetchUpdates, "work" from there to the return of syncUpdates.
MaxTicks == 3

Runs == 0..MaxTicks

SchedCreated == [at |-> "created", ticks |-> 0, runs |-> [r \in Runs |-> "none"]]

SchedInit ==
  /\ CycleInit
  /\ served = {"pollopt"}
  /\ sched = SchedCreated
  /\ repo = NoRepo
  /\ twin = NoTwin
  /\ source = SourceAtStart
  /\ mgr = NoMgr
  /\ tally = NoTally

\* registerJobs: if job.immediate { go job.task() }; d.scheduler.NewJob(...)
RegisterJobs ==
  /\ sched.at = "created"
  /\ sched' = [sched EXCEPT !.at = "registered", !.runs[0] = "fetch"]
  /\ UNCHANGED <<cycleVars, repo, twin, source, mgr, tally>>

\* d.scheduler.Start()
SchedulerStart ==
  /\ sched.at = "registered"
  /\ sched' = [sched EXCEPT !.at = "started"]
  /\ UNCHANGED <<cycleVars, repo, twin, source, mgr, tally>>

\* The interval has passed: the scheduler runs the task in a new goroutine,
\* whether or not an earlier run has returned.
Tick ==
  /\ sched.at = "started"
  /\ sched.ticks < MaxTicks
  /\ sched' = [sched EXCEPT !.ticks = @ + 1, !.runs[sched.ticks + 1] = "fetch"]
  /\ UNCHANGED <<cycleVars, repo, twin, source, mgr, tally>>

\* FetchUpdates returns: syncUpdates returns at once (error, empty update)
\* or goes on to the two loops.
RunFetched(r) ==
  /\ sched.at # "off"
  /\ sched.runs[r] = "fetch"
  /\ \E early \in BOOLEAN :
       sched' = [sched EXCEPT !.runs[r] = IF early THEN "done" ELSE "work"]
  /\ UNCHANGED <<cycleVars, repo, twin, source, mgr, tally>>

\* saveWg.Wait() returns and syncUpdates with it.
RunReturns(r) ==
  /\ sched.at # "off"
  /\ sched.runs[r] = "work"
  /\ sched' = [sched EXCEPT !.runs[r] = "done"]
  /\ UNCHANGED <<cycleVars, repo, twin, source, mgr, tally>>

SchedNext ==
  \/ RegisterJobs
  \/ SchedulerStart
  \/ Tick
  \/ \E r \in Runs : RunFetched(r)
  \/ \E r \in Runs : RunReturns(r)

SchedSpec == SchedInit /\ [][SchedNext]_vars

RunsInProgress == {r \in Runs : sched.runs[r] \in {"fetch", "work"}}

\* C13: at most one run of syncUpdates is between its frontier fetch and its
\* return at any time.
C13_OneCycleAtATime ==
  sched.at # "off" => Cardinality(RunsInProgress) <= 1

\* ------------------------------------------------------------------------
\* The process at work without end: the scheduler runs syncUpdates again
\* and again, every cycle gets the same frontier (or a failed fetch), and
\* the remote source may raise a user's karma.  Every goroutine that can
\* take a step takes it in the end (the Go scheduler runs every runnable
\* goroutine; the ticks of the scheduler never stop).
LiveFrontier == [IDs |-> <<1>>, Profiles |-> <<"alice">>]

LiveInit ==
  /\ CycleInit
  /\ served = {"story", "job"}
  /\ sched = NoSched
  /\ repo = NoRepo
  /\ twin = NoTwin
  /\ source = SourceAtStart
  /\ mgr = NoMgr
  /\ tally = NoTally

\* One more run of syncUpdates; the cycles are not counted.
LiveSync ==
  \E res \in {[err |-> TRUE, update |-> EmptyUpdate],
              [err |-> FALSE, update |-> LiveFrontier]} :
    /\ cycle' = cycle
    /\ BeginCycle(res)

\* The user gains karma at the source.
SourceChange ==
  /\ \E n \in UserNames :
       /\ source[n] = SourceAtStart[n]
       /\ source' = [source EXCEPT ![n] = @ + 1]
  /\ UNCHANGED <<cycleVars, sched, repo, twin, mgr, tally>>

ItemStep == \E k \in 1..MaxIDs : ItemResolve(k) \/ ItemLock(k) \/ ItemAppend(k)

ProfStep == \E k \in 1..MaxProfiles : ProfResolve(k) \/ ProfLock(k) \/ ProfAppend(k)

SaveStep == \E c \in AllClasses : SaveUpsert(c) \/ SavePublish(c) \/ SaveCache(c)

LiveNext ==
  \/ LiveSync
  \/ SourceChange
  \/ ItemStep
  \/ ProfStep
  \/ FanIn
  \/ SaveStep
  \/ FinishCycle

LiveSpec ==
  /\ LiveInit
  /\ [][LiveNext]_vars
  /\ WF_vars(LiveSync)
  /\ WF_vars(ItemStep)
  /\ WF_vars(ProfStep)
  /\ WF_vars(FanIn)
  /\ WF_vars(SaveStep)
  /\ WF_vars(FinishCycle)

\* Nothing has failed in the cycle at hand: the frontier was fetched, no
\* lookup or fetch of a unit failed, no record was found invalid, no upsert,
\* producer or cache write failed, and the process runs.
UnitsFine ==
  /\ \A k \in DOMAIN items : items[k].out \in {"", "cached", "appended"}
  /\ \A k \in DOMAIN profs : profs[k].out \in {"", "cached", "appended"}

NothingFails ==
  /\ phase # "exited"
  /\ frontier = "ok"
  /\ UnitsFine
  /\ ~seen.skipped
  /\ NoSaveFailure

HasRow(i) == \E c \in ItemClasses : i \in StoredKeys(c)

\* C14: if from some cycle on an id is in every frontier and nothing fails,
\* the store holds a row for the id in the end.
C14_RecordsEventuallyStored ==
  \A i \in SeqToSet(LiveFrontier.IDs) :
    <>[](NothingFails /\ i \in SeqToSet(update.IDs)) => <>HasRow(i)

RowIsLatest(n) ==
  \E u \in store[UserClass] : u.Username = n /\ u.Karma = source[n]

\* C15: if a user whose row is in the store gains karma at the source and
\* from some cycle on the username is in every frontier and nothing fails,
\* the row holds the karma of the source in the end.
C15_ProfilesEventuallyLatest ==
  \A n \in SeqToSet(LiveFrontier.Profiles) :
    (/\ <>(RowIsLatest(n) /\ source[n] = SourceAtStart[n])
     /\ <>[](NothingFails /\ n \in SeqToSet(update.Profiles)))
    => <>[]RowIsLatest(n)

\* ------------------------------------------------------------------------
\* The work of one cycle on the content records when no call fails, as a
\* function of the frontier, the source, the store and the cache: every id
\* of the frontier goes through the unit of the first loop, the records
\* that reach mu.Lock() are appended to their class's collection (taken in
\* frontier order), and every non-empty collection goes to its repository.
\* src gives, per id, the discriminant of the raw fetch and the document of
\* the typed fetch.
TwinSources(i) ==
  {[raw |-> t, doc |-> GoodPayload(i, ty)] : t \in {"story", "job"},
                                            ty \in {"Story", "Job", "story"}}

\* A row stored by an earlier cycle.
OldRow(c, i) == DecodeItem(c, [GoodPayload(i, ExpectedType(c)) EXCEPT !.title = "Old"])

TwinStores ==
  {[c \in AllClasses |-> IF c = "story" THEN {OldRow(c, i) : i \in s}
                         ELSE IF c = "job" THEN {OldRow(c, i) : i \in j}
                         ELSE {}] : s \in SUBSET ItemIDs, j \in SUBSET ItemIDs}

EmptyCache == [k \in {itemsRedisKey, userRedisKey} |-> RedisNil]

\* The caches a cycle may have left: the key unset, or one list of ids.
TwinCaches ==
  {EmptyCache} \cup
  {CacheID(EmptyCache, itemsRedisKey, l, FALSE).db : l \in SeqsUpTo(ItemIDs, MaxIDs) \ {<<>>}}

Collected(front, src, db) ==
  [k \in 1..Len(front) |->
     ResolveItem(NewItemUnit(front[k]), db, FALSE, src[front[k]].raw, FALSE,
                 src[front[k]].doc)]

BatchOf(c, units) ==
  LET mine == SelectSeq(units, LAMBDA u : u.pc = "lock" /\ u.itemType = c)
  IN  [k \in 1..Len(mine) |-> mine[k].rec]

RowsAfter(front, src, st, db) ==
  LET units == Collected(front, src, db)
  IN  [c \in AllClasses |->
         IF c \in ItemClasses /\ BatchOf(c, units) # <<>>
           THEN CreateBatchWithExistingIDs(c, st[c], BatchOf(c, units), "none").rows
           ELSE st[c]]

RECURSIVE SumFetches(_)
SumFetches(units) ==
  IF units = <<>> THEN 0 ELSE Head(units).fetches + SumFetches(Tail(units))

\* The ids the cache db answers "exists" for.
CachedIn(db) == {i \in ItemIDs : IsItemInCache(db, itemsRedisKey, i, FALSE).exists}

TwinInputs ==
  {[front |-> f, src |-> sc, store |-> st, cache |-> db] :
     f \in SeqsUpTo(ItemIDs, MaxIDs) \ {<<>>},
     sc \in [ItemIDs -> UNION {TwinSources(i) : i \in ItemIDs}],
     st \in TwinStores, db \in TwinCaches}

\* Every cached id has a row, and every id gets a document of its own.
TwinInit ==
  /\ CycleInit
  /\ served = {"story", "job"}
  /\ sched = NoSched
  /\ repo = NoRepo
  /\ source = SourceAtStart
  /\ mgr = NoMgr
  /\ tally = NoTally
  /\ \E in \in TwinInputs :
       /\ \A i \in ItemIDs : in.src[i] \in TwinSources(i)
       /\ \A i \in CachedIn(in.cache) : \E c \in ItemClasses : \E r \in in.store[c] : r.ID = i
       /\ twin = [at |-> "ready", in |-> in]

\* The same cycle run twice: once with the cache, once with an empty cache.
TwinRun ==
  /\ twin.at = "ready"
  /\ LET in == twin.in
     IN  twin' = [at |-> "done", in |-> in,
                  with |-> RowsAfter(in.front, in.src, in.store, in.cache),
                  without |-> RowsAfter(in.front, in.src, in.store, EmptyCache),
                  fetchesWith |-> SumFetches(Collected(in.front, in.src, in.cache)),
                  fetchesWithout |-> SumFetches(Collected(in.front, in.src, EmptyCache))]
  /\ UNCHANGED <<cycleVars, sched, repo, source, mgr, tally>>

TwinNext == TwinRun

TwinSpec == TwinInit /\ [][TwinNext]_vars

CachedRowsInSourceClass ==
  \A i \in CachedIn(twin.in.cache) :
    /\ twin.in.src[i].raw \in ItemClasses
    /\ \E r \in twin.in.store[twin.in.src[i].raw] : r.ID = i

MaxCalls == 3

RepoClasses == {"story", "comment", "job", "pollopt", UserClass}

RepoUsers == {"alice", "bob"}

\* Records a client may hand to a content repository: two versions of every
\* id, the "X" one by alice and the "Old" one by bob, and one record that
\* fails the model's IsValid.
RepoRecords(c) ==
  {DecodeItem(c, [GoodPayload(i, ExpectedType(c)) EXCEPT
                    !.title = t, !.text = t,
                    !.by = IF t = "X" THEN "alice" ELSE "bob"]) :
     i \in ItemIDs, t \in {"X", "Old"}}
  \cup {DecodeItem(c, [GoodPayload(MaxItemID, ExpectedType(c)) EXCEPT !.title = "", !.text = ""])}

RepoUserRecords ==
  {DecodeUser(ProfileAt("alice", 10)),
   DecodeUser([ProfileAt("alice", 11) EXCEPT !.about = "new", !.created = 2000,
                                             !.submitted = <<1>>]),
   DecodeUser(ProfileAt("bob", 10))}

RepoBatches(c) ==
  SeqsUpTo(IF c = UserClass THEN RepoUserRecords ELSE RepoRecords(c), MaxIDs)

\* array_remove that takes out the first occurrence only.
ArrayRemoveFirst(a, x) ==
  LET at == {k \in 1..Len(a) : a[k] = x}
  IN  IF at = {} THEN a
      ELSE LET f == CHOOSE k \in at : \A j \in at : k <= j
           IN  SubSeq(a, 1, f - 1) \o SubSeq(a, f + 1, Len(a))

\* array_append(submitted_ids, $1) and array_remove(submitted_ids, $1) of
\* PostgreSQL: the latter removes every element equal to $1.
ArrayAppend(a, x) == Append(a, x)

ArrayRemove(a, x) == SelectSeq(a, LAMBDA y : y # x)

\* UserRepository.AddSubmission: UPDATE users SET submitted_ids =
\* array_append(submitted_ids, $1) WHERE username = $2
AddSubmission(rows, username, itemID, fault) ==
  IF fault THEN [rows |-> rows, err |-> TRUE]
  ELSE [rows |-> {IF u.Username = username
                    THEN [u EXCEPT !.Submitted = ArrayAppend(@, itemID)] ELSE u : u \in rows},
        err |-> FALSE]

\* UserRepository.RemoveSubmission: UPDATE users SET submitted_ids =
\* array_remove(submitted_ids, $1) WHERE username = $2
RemoveSubmission(rows, username, itemID, fault) ==
  IF fault THEN [rows |-> rows, err |-> TRUE]
  ELSE [rows |-> {IF u.Username = username
                    THEN [u EXCEPT !.Submitted = ArrayRemove(@, itemID)] ELSE u : u \in rows},
        err |-> FALSE]

\* A DELETE that removes every row of the table, whoever wrote it.
DeleteEveryAuthor(rows, author, fault) ==
  IF fault THEN [rows |-> rows, err |-> TRUE] ELSE [rows |-> {}, err |-> FALSE]

\* StoryRepository.DeleteByAuthor: DELETE FROM stories WHERE author = $1, one
\* statement outside any transaction.
DeleteByAuthor(rows, author, fault) ==
  IF fault THEN [rows |-> rows, err |-> TRUE]
  ELSE [rows |-> {r \in rows : r.Author # author}, err |-> FALSE]

\* StoryRepository.Exists: SELECT EXISTS(SELECT 1 FROM stories WHERE id = $1)
Exists(rows, id) == \E r \in rows : r.ID = id

NoCall == [op |-> "none", err |-> FALSE]

RepoInit ==
  /\ CycleInit
  /\ served = {"pollopt"}
  /\ sched = NoSched
  /\ twin = NoTwin
  /\ source = SourceAtStart
  /\ mgr = NoMgr
  /\ tally = NoTally
  /\ \E c \in RepoClasses : repo = [at |-> "on", class |-> c, rows |-> {}, n |-> 0, last |-> NoCall]

RepoCreateBatch ==
  /\ repo.at = "on"
  /\ repo.n < MaxCalls
  /\ \E batch \in RepoBatches(repo.class), fault \in StoreFaults :
       /\ fault = "exec" => batch # <<>>
       /\ LET r == CreateBatchWithExistingIDs(repo.class, repo.rows, batch, fault)
          IN  repo' = [repo EXCEPT !.rows = r.rows, !.n = @ + 1,
                                   !.last = [op |-> "batch", batch |-> batch,
                                             fault |-> fault, err |-> r.err,
                                             before |-> repo.rows]]
  /\ UNCHANGED <<cycleVars, sched, twin, source, mgr, tally>>

RepoAddSubmission ==
  /\ repo.at = "on"
  /\ repo.class = UserClass
  /\ repo.n < MaxCalls
  /\ \E username \in RepoUsers, itemID \in ItemIDs, fault \in BOOLEAN :
       LET r == AddSubmission(repo.rows, username, itemID, fault)
       IN  repo' = [repo EXCEPT !.rows = r.rows, !.n = @ + 1,
                                !.last = [op |-> "add", username |-> username,
                                          itemID |-> itemID, err |-> r.err,
                                          before |-> repo.rows]]
  /\ UNCHANGED <<cycleVars, sched, twin, source, mgr, tally>>

RepoRemoveSubmission ==
  /\ repo.at = "on"
  /\ repo.class = UserClass
  /\ repo.n < MaxCalls
  /\ \E username \in RepoUsers, itemID \in ItemIDs, fault \in BOOLEAN :
       LET r == RemoveSubmission(repo.rows, username, itemID, fault)
       IN  repo' = [repo EXCEPT !.rows = r.rows, !.n = @ + 1,
                                !.last = [op |-> "remove", username |-> username,
                                          itemID |-> itemID, err |-> r.err,
                                          before |-> repo.rows]]
  /\ UNCHANGED <<cycleVars, sched, twin, source, mgr, tally>>

RepoDeleteByAuthor ==
  /\ repo.at = "on"
  /\ repo.class = "story"
  /\ repo.n < MaxCalls
  /\ \E author \in RepoUsers, fault \in BOOLEAN :
       LET r == DeleteByAuthor(repo.rows, author, fault)
       IN  repo' = [repo EXCEPT !.rows = r.rows, !.n = @ + 1,
                                !.last = [op |-> "delete", author |-> author,
                                          err |-> r.err, before |-> repo.rows]]
  /\ UNCHANGED <<cycleVars, sched, twin, source, mgr, tally>>

RepoNext ==
  \/ RepoCreateBatch
  \/ RepoAddSubmission
  \/ RepoRemoveSubmission
  \/ RepoDeleteByAuthor

RepoSpec == RepoInit /\ [][RepoNext]_vars

\* The step is a call of CreateBatchWithExistingIDs.
BatchCalled == repo'.n # repo.n /\ repo'.last.op = "batch"

RowKeys(rows) == {KeyOf(repo.class, r) : r \in rows}

\* C17: a call of CreateBatchWithExistingIDs that returns an error leaves
\* the table as it was; a call that returns nil leaves a row for every id of
\* the batch.
C17_BatchAllOrNothing ==
  [][BatchCalled =>
       /\ repo'.last.err => repo'.rows = repo.rows
       /\ ~repo'.last.err => BatchKeys(repo.class, repo'.last.batch) \subseteq RowKeys(repo'.rows)]_vars

\* The insert of the second row failed after the first row, absent before,
\* had been executed.
C17_Witness ==
  /\ repo.at = "on"
  /\ repo.last.op = "batch"
  /\ repo.last.err
  /\ repo.last.fault = "exec"
  /\ Len(repo.last.batch) = 2
  /\ KeyOf(repo.class, repo.last.batch[1]) \notin RowKeys(repo.rows)

\* The step is a call of CreateBatchWithExistingIDs on a content table that
\* returned nil.
ContentBatchDone ==
  BatchCalled /\ repo.class \in ItemClasses /\ ~repo'.last.err

\* C18: a successful CreateBatchWithExistingIDs on stories, comments, jobs
\* or poll options keeps every row the table had, adds a row for exactly the
\* ids of the batch that had none, leaves one row per id, and changes
\* nothing when the same batch is applied again.
C18_ContentInsertIfAbsent ==
  [][ContentBatchDone =>
       /\ repo.rows \subseteq repo'.rows
       /\ RowKeys(repo'.rows) = RowKeys(repo.rows) \cup BatchKeys(repo.class, repo'.last.batch)
       /\ \A x, y \in repo'.rows : x.ID = y.ID => x = y
       /\ CreateBatchWithExistingIDs(repo.class, repo'.rows, repo'.last.batch, "none").rows
            = repo'.rows]_vars

\* A batch with a new version of a stored id and an absent id was applied:
\* the stored "Old" row of id 1 is still there, id 2 was inserted.
C18_Witness ==
  /\ repo.at = "on"
  /\ repo.class \in ItemClasses
  /\ repo.last.op = "batch"
  /\ ~repo.last.err
  /\ Len(repo.last.batch) = 2
  /\ repo.last.batch[1].ID = 1 /\ MandatoryText(repo.class, repo.last.batch[1]) = "X"
  /\ repo.last.batch[2].ID = 2
  /\ \E r \in repo.rows : r.ID = 1 /\ MandatoryText(repo.class, r) = "Old"
  /\ \E r \in repo.rows : r.ID = 2

\* The last row of the batch with the username of its k-th row.
LastOccurrence(batch, k) ==
  LET same == {j \in 1..Len(batch) : batch[j].Username = batch[k].Username}
  IN  batch[CHOOSE j \in same : \A h \in same : h <= j]

\* C19: after a successful CreateBatchWithExistingIDs on users, every
\* username of the batch has exactly one row, and the row holds the karma,
\* about, created_at and submitted ids of the last row of the batch with
\* that username, whether or not the username was stored before.
C19_UsersOverwrittenWithLatest ==
  (repo.at = "on" /\ repo.class = UserClass /\ repo.last.op = "batch" /\ ~repo.last.err) =>
    \A k \in 1..Len(repo.last.batch) :
      {u \in repo.rows : u.Username = repo.last.batch[k].Username}
        = {LastOccurrence(repo.last.batch, k)}

\* alice was stored with karma 10; the batch names her twice, first with the
\* stored values, then with new ones.
C19_Witness ==
  /\ repo.at = "on" /\ repo.class = UserClass
  /\ repo.last.op = "batch" /\ ~repo.last.err
  /\ DecodeUser(ProfileAt("alice", 10)) \in repo.last.before
  /\ Len(repo.last.batch) = 2
  /\ repo.last.batch[1] = DecodeUser(ProfileAt("alice", 10))
  /\ repo.last.batch[2].Username = "alice" /\ repo.last.batch[2].Karma = 11
  /\ \E u \in repo.rows : u.Username = "alice" /\ u.Karma = 11 /\ u.Submitted = <<1>>

SubmittedOf(rows, username) == {u.Submitted : u \in {x \in rows : x.Username = username}}

OtherUsers(rows, username) == {u \in rows : u.Username # username}

\* C20: after AddSubmission(username, itemID) the id is in the submitted
\* list of that user; after RemoveSubmission(username, itemID) it occurs
\* nowhere in that list; neither call changes the row of another user.
C20_AddThenRemoveSubmission ==
  (repo.at = "on" /\ repo.last.op \in {"add", "remove"} /\ ~repo.last.err) =>
    /\ OtherUsers(repo.rows, repo.last.username)
         = OtherUsers(repo.last.before, repo.last.username)
    /\ \A l \in SubmittedOf(repo.rows, repo.last.username) :
         IF repo.last.op = "add" THEN repo.last.itemID \in SeqToSet(l)
         ELSE repo.last.itemID \notin SeqToSet(l)

\* The id was in alice's list twice when it was removed, and bob has a row.
C20_Witness ==
  /\ repo.at = "on"
  /\ repo.last.op = "remove" /\ ~repo.last.err
  /\ repo.last.username = "alice"
  /\ \E l \in SubmittedOf(repo.last.before, "alice") : Occurrences(l, repo.last.itemID) = 2
  /\ SubmittedOf(repo.rows, "alice") = {<<>>}
  /\ OtherUsers(repo.rows, "alice") # {}

\* C21: after a successful DeleteByAuthor(author) on the stories table no
\* story of that author is left (Exists is false for each of them), and
\* every row of every other author is as it was.
C21_DeleteByAuthorFrame ==
  (repo.at = "on" /\ repo.last.op = "delete" /\ ~repo.last.err) =>
    /\ \A r \in repo.last.before :
         r.Author = repo.last.author => ~Exists(repo.rows, r.ID)
    /\ {r \in repo.rows : r.Author # repo.last.author}
         = {r \in repo.last.before : r.Author # repo.last.author}
    /\ repo.rows \subseteq repo.last.before

\* alice's story was deleted while bob's story stayed.
C21_Witness ==
  /\ repo.at = "on" /\ repo.class = "story"
  /\ repo.last.op = "delete" /\ ~repo.last.err
  /\ repo.last.author = "alice"
  /\ \E r \in repo.last.before : r.Author = "alice"
  /\ \E r \in repo.rows : r.Author = "bob"

\* The step starts the save goroutines of the cycle.
SaveStarts == phase = "collect" /\ phase' = "save"

\* The step is a batch upsert of some class.
UpsertRuns == \E c \in AllClasses : task[c] = "upsert" /\ task'[c] = "check"

\* C22: the save goroutines of a cycle start only when every unit of both
\* loops has returned (appended, cached, skipped or failed), a batch upsert
\* runs only after that start, and from that start to the end of the cycle
\* no collection changes.
C22_FanInBarrier ==
  [][/\ SaveStarts =>
          /\ \A k \in DOMAIN items : items[k].pc = "done"
          /\ \A k \in DOMAIN profs : profs[k].pc = "done"
          /\ mu = NoHolder
     /\ UpsertRuns => phase = "save"
     /\ phase = "save" => recs' = recs /\ ids' = ids]_vars

\* A batch upsert has run in a cycle in which one unit failed or was skipped
\* and another unit appended a record.
C22_Witness ==
  /\ phase = "save"
  /\ seen.skipped
  /\ \E c \in AllClasses : hist.upsert[c] = "ok" /\ Len(recs[c]) = 1
  /\ Len(update.IDs) + Len(update.Profiles) = 2

\* The units of both loops, each with what the step has made of it.
UnitsChanged ==
  {<<"item", k>> : k \in {j \in DOMAIN items : items'[j] # items[j]}}
    \cup {<<"prof", k>> : k \in {j \in DOMAIN profs : profs'[j] # profs[j]}}

\* The step is taken by a unit that ends without an append.
UnitGivesUp ==
  \/ \E k \in DOMAIN items : items'[k].pc = "done" /\ items'[k].out \notin {"appended", ""}
                               /\ items[k].pc = "start"
  \/ \E k \in DOMAIN profs : profs'[k].pc = "done" /\ profs'[k].out \notin {"appended", ""}
                               /\ profs[k].pc = "start"

\* While the units run, a step changes one unit only, a unit that gives up
\* changes no collection, and the only way out of the phase is the start of
\* the save goroutines.
UnitsIsolated ==
  (phase = "collect") =>
    /\ phase' \in {"collect", "save"}
    /\ phase' = "collect" => Cardinality(UnitsChanged) <= 1
    /\ (phase' = "collect" /\ UnitGivesUp) => recs' = recs /\ ids' = ids /\ mu' = mu

\* When the save goroutines start, the id list of every class holds the id
\* of every unit that appended and of no other, and every record collected
\* meets the validity rules of the data model.
CollectedExactlyTheValid ==
  SaveStarts =>
    /\ \A c \in ItemClasses :
         /\ SeqToSet(ids[c]) = {items[k].id : k \in AppendedUnits(c)}
         /\ \A k \in 1..Len(recs[c]) : MeetsValidityRules(c, recs[c][k])
    /\ SeqToSet(ids[UserClass])
         = {profs[k].id : k \in {j \in DOMAIN profs : profs[j].out = "appended"}}
    /\ \A k \in DOMAIN items : items[k].out = "cached" => InItemsCache(items[k].id)
    /\ \A k \in DOMAIN profs : profs[k].out = "cached" => InProfilesCache(profs[k].id)

\* C23 (isolation part): the failure of one unit changes neither another
\* unit nor a collection, and does not end the cycle.
C23_FailuresStayLocal == [][UnitsIsolated]_vars

\* C23: the failure of one unit changes neither another unit nor a
\* collection and does not end the cycle, and at fan-in the collections hold
\* exactly the ids and usernames that were not cached, were fetched and are
\* valid.
C23_FailureIsolationAndExactYield ==
  [][UnitsIsolated /\ CollectedExactlyTheValid]_vars

\* C24: a cycle whose frontier fetch succeeded starts one unit for every
\* username of the frontier that is not in the profiles cache, also when
\* the frontier names no record id.
C24_EveryUsernameGetsAUnit ==
  [][(cycle' # cycle /\ frontier' # "err") =>
       \A k \in 1..Len(update'.Profiles) :
         ~InProfilesCache(update'.Profiles[k]) =>
           k \in DOMAIN profs' /\ profs'[k].id = update'.Profiles[k]]_vars

\* The class whose collection the holder of the mutex appends to.
ClassOfHolder(h) == IF h.kind = "item" THEN items[h.ix].itemType ELSE UserClass

\* C25: a unit that is about to append to one class's collection is never
\* kept waiting by a unit that is appending to the collection of a
\* different class.
C25_NoWaitAcrossClasses ==
  (phase = "collect" /\ mu # NoHolder) =>
    /\ \A k \in DOMAIN items :
         items[k].pc = "lock" => items[k].itemType = ClassOfHolder(mu)
    /\ \A k \in DOMAIN profs :
         profs[k].pc = "lock" => ClassOfHolder(mu) = UserClass

\* The step is the call of the producer by the save goroutine of class c.
PublishCalled(c) ==
  /\ phase = "save" /\ task[c] = "check" /\ err = "nil"
  /\ hist'.publish[c] # hist.publish[c]

\* The producer is called for a class at most once in a cycle, and a class
\* with an empty collection has no save goroutine: no upsert, no
\* publication, no cache write.
PublishedOnceAndOnlyNonEmpty ==
  \A c \in AllClasses :
    /\ PublishCalled(c) => hist.publish[c] = "none" /\ Len(recs[c]) > 0
    /\ (hist.publish[c] # "none" /\ cycle' = cycle) =>
         /\ hist'.publish[c] = hist.publish[c]
         /\ topicLog'[TopicOf(c)] = topicLog[TopicOf(c)]
    /\ (phase = "save" /\ Len(recs[c]) = 0) =>
         /\ hist'.upsert[c] = "none" /\ hist'.publish[c] = "none"
         /\ hist'.mark[c] = "none" /\ task[c] = "off"
         /\ store'[c] = store[c] /\ topicLog'[TopicOf(c)] = topicLog[TopicOf(c)]

\* C26 (without the condition on the upsert): one call of the producer per
\* non-empty class and cycle at most, none for an empty class.
C26_OncePerNonEmptyClass == [][PublishedOnceAndOnlyNonEmpty]_vars

\* C26: in a cycle the producer is called at most once per class and only
\* for a class whose collection is non-empty and whose batch upsert
\* succeeded; a class with an empty collection causes no store call, no
\* publication and no cache write.
C26_PublishOncePerUpsertedClass ==
  [][/\ PublishedOnceAndOnlyNonEmpty
     /\ \A c \in AllClasses : PublishCalled(c) => hist.upsert[c] = "ok"]_vars

\* C27: every record in a class's collection, and every record a unit is
\* about to append to it, carries the tag of that class, whatever the typed
\* fetch returned; a unit whose raw discriminant names no case of the
\* switch, or whose typed decode failed the test, holds no record and is
\* not appended.
C27_CollectedRecordsCarryClassTag ==
  /\ \A c \in ItemClasses :
       \A k \in 1..Len(recs[c]) : recs[c][k].Type = ExpectedType(c)
  /\ \A k \in DOMAIN items :
       /\ items[k].pc \in {"lock", "append"} \/ items[k].out = "appended" =>
            /\ items[k].itemType \in ItemClasses
            /\ items[k].rec.Type = ExpectedType(items[k].itemType)
       /\ items[k].out \in {"noCase", "noType", "invalid"} => items[k].rec = NoRec
  /\ AtBarrier =>
       \A c \in ItemClasses : Len(recs[c]) = Cardinality(AppendedUnits(c))

\* One unit was dispatched as "story" and its typed fetch gave a record
\* tagged "Story", which was collected; the other was dispatched as "job",
\* its typed fetch gave the complete payload tagged "job", and it was
\* discarded.
C27_Witness ==
  /\ AtBarrier
  /\ \E k \in DOMAIN items :
       items[k].out = "appended" /\ items[k].itemType = "story" /\ items[k].rec.Type = "Story"
  /\ \E k \in DOMAIN items :
       items[k].out = "invalid" /\ items[k].itemType = "job" /\ items[k].echo
  /\ Len(recs["story"]) = 1 /\ Len(recs["job"]) = 0

\* The store holds one row per id, whatever the batches were.
OneRowPerId ==
  \A c \in AllClasses :
    \A x, y \in store[c] : KeyOf(c, x) = KeyOf(c, y) => x = y

\* C28: the batch a class hands to the store and the id list it hands to
\* the producer name every id once, and the store holds one row per id.
C28_CollectionsAreSets ==
  /\ \A c \in AllClasses :
       hist.upsert[c] # "none" =>
         /\ \A j, k \in 1..Len(ids[c]) : ids[c][j] = ids[c][k] => j = k
         /\ \A j, k \in 1..Len(recs[c]) :
              KeyOf(c, recs[c][j]) = KeyOf(c, recs[c][k]) => j = k
  /\ OneRowPerId

\* The step is the cache write of the save goroutine of an item class / of
\* the user class.
ItemsMarked == \E c \in ItemClasses : task[c] = "cache" /\ task'[c] = "done"

UsersMarked == task[UserClass] = "cache" /\ task'[UserClass] = "done"

\* What the key of a namespace may hold.
ItemsKeyValues ==
  {RedisNil} \cup {[set |-> TRUE, val |-> Marshal(l)] : l \in SeqsUpTo(ItemIDs, MaxIDs)}

UsersKeyValues ==
  {RedisNil} \cup {[set |-> TRUE, val |-> Marshal(l)] : l \in SeqsUpTo(UserNames, MaxProfiles)}

\* C29: a cache write of item ids leaves the key and the membership answers
\* of the profiles namespace as they were, a cache write of usernames those
\* of the items namespace, and neither lookup depends on what the key of
\* the other namespace holds.
C29_NamespacesSeparate ==
  [][/\ itemsRedisKey # userRedisKey
     /\ ItemsMarked => /\ redisDB'[userRedisKey] = redisDB[userRedisKey]
                       /\ CachedProfiles' = CachedProfiles
     /\ UsersMarked => /\ redisDB'[itemsRedisKey] = redisDB[itemsRedisKey]
                       /\ CachedItems' = CachedItems
     /\ \A v \in UsersKeyValues, i \in 0..MaxItemID :
          IsItemInCache([redisDB EXCEPT ![userRedisKey] = v], itemsRedisKey, i, FALSE)
            = IsItemInCache(redisDB, itemsRedisKey, i, FALSE)
     /\ \A v \in ItemsKeyValues, n \in UserNames :
          IsUserIDInCache([redisDB EXCEPT ![itemsRedisKey] = v], userRedisKey, n, FALSE)
            = IsUserIDInCache(redisDB, userRedisKey, n, FALSE)]_vars

\* Both namespaces hold a member, and both an item class and the user class
\* have written the cache in this cycle.
C29_Witness ==
  /\ hist.mark[UserClass] = "ok"
  /\ \E c \in ItemClasses : hist.mark[c] = "ok"
  /\ CachedItems # {}
  /\ CachedProfiles # {}

\* A call of the producer by the save goroutine of class c adds messages of
\* ids of c's batch to topic t and changes no other topic.
RoutedTo(c, t) ==
  PublishCalled(c) =>
    /\ \A u \in DOMAIN topicLog : u # t => topicLog'[u] = topicLog[u]
    /\ topicLog[t] \subseteq topicLog'[t]
    /\ topicLog'[t] \subseteq topicLog[t] \cup {MessageOf(c, ids[c][k]) : k \in 1..Len(ids[c])}

C31_IdListMirrorsBatch ==
  \A c \in AllClasses :
    /\ Len(ids[c]) = Len(recs[c])
    /\ \A k \in 1..Len(recs[c]) : ids[c][k] = KeyOf(c, recs[c][k])

\* Two records with different ids are in one class's collection when the
\* save goroutines run.
C31_Witness ==
  /\ phase = "save"
  /\ \E c \in ItemClasses :
       /\ Len(recs[c]) = 2
       /\ recs[c][1].ID # recs[c][2].ID
       /\ hist.upsert[c] = "ok"

\* C32: with every goroutine that can run scheduled again and again, a
\* cycle past its frontier step reaches the start of the save goroutines,
\* a held mutex is released, and a cycle in its save phase ends with the
\* return of syncUpdates, unless a producer has ended the process instead of
\* returning.
C32_EveryCycleTerminates ==
  /\ (phase = "collect") ~> (phase = "save")
  /\ (mu # NoHolder) ~> (mu = NoHolder)
  /\ (phase = "save") ~> (phase = "idle" \/ phase = "exited")

\* syncUpdates has returned from a cycle in which the unit of the id and
\* the unit of the username both took the mutex and both classes were saved.
C32_Witness ==
  /\ CycleEnd
  /\ Len(recs["story"]) = 1
  /\ Len(recs[UserClass]) = 1
  /\ hist.upsert["story"] # "none"
  /\ hist.upsert[UserClass] # "none"

\* The ids and usernames all of whose units ended on an error of the cache
\* lookup.
LookupFailedItems ==
  {items[k].id : k \in {j \in DOMAIN items : items[j].out = "cacheErr"}}
    \ {items[k].id : k \in {j \in DOMAIN items : items[j].out # "cacheErr"}}

LookupFailedProfiles ==
  {profs[k].id : k \in {j \in DOMAIN profs : profs[j].out = "cacheErr"}}
    \ {profs[k].id : k \in {j \in DOMAIN profs : profs[j].out # "cacheErr"}}

\* A unit that ended on an error of the cache lookup has fetched nothing
\* and holds no record; at the start of the save goroutines its id is in no
\* id list unless another unit of the same id put it there.
LookupErrorEndsUnit ==
  /\ \A k \in DOMAIN items :
       items[k].out = "cacheErr" =>
         items[k].pc = "done" /\ items[k].fetches = 0 /\ items[k].rec = NoRec
  /\ \A k \in DOMAIN profs :
       profs[k].out = "cacheErr" =>
         profs[k].pc = "done" /\ profs[k].fetches = 0 /\ profs[k].rec = NoRec
  /\ SaveStarts =>
       /\ \A c \in ItemClasses : SeqToSet(ids[c]) \cap LookupFailedItems = {}
       /\ SeqToSet(ids[UserClass]) \cap LookupFailedProfiles = {}

\* The save goroutines store, publish and mark nothing but the ids of the
\* id lists.
SavesOnlyListedIds ==
  phase = "save" =>
    /\ \A c \in AllClasses :
         /\ StoredKeys(c)' \subseteq StoredKeys(c) \cup SeqToSet(ids[c])
         /\ topicLog'[TopicOf(c)] \subseteq
              topicLog[TopicOf(c)] \cup {MessageOf(c, x) : x \in SeqToSet(ids[c])}
    /\ CachedItems' \subseteq
         CachedItems \cup UNION {SeqToSet(ids[c]) : c \in ItemClasses}
    /\ CachedProfiles' \subseteq CachedProfiles \cup SeqToSet(ids[UserClass])

MaxMgrCalls == 4

MgrProcs == {1, 2}

MgrNames == {"a", "b"}

\* The calls a goroutine may make; valid: cron.AddFunc accepts the schedule.
MgrRequests ==
  {[op |-> o, name |-> "", valid |-> TRUE] : o \in {"start", "stop", "list"}}
    \cup {[op |-> "add", name |-> n, valid |-> v] : n \in MgrNames, v \in BOOLEAN}
    \cup {[op |-> "remove", name |-> n, valid |-> TRUE] : n \in MgrNames}

\* NewCronJobManager: not running, an empty map; the first EntryID of the
\* cron is 1, and a name that is no key of the map is held as 0.
NewCronJobManager ==
  [running |-> FALSE, jobs |-> [n \in MgrNames |-> 0], entries |-> {}, next |-> 1]

\* A Start that does not look at the running flag.
StartAlways(st) == [st |-> [st EXCEPT !.running = TRUE], err |-> "nil"]

\* CronJobManager.Start between Lock and Unlock.
Start(st) ==
  IF st.running THEN [st |-> st, err |-> "running"]
  ELSE [st |-> [st EXCEPT !.running = TRUE], err |-> "nil"]

\* CronJobManager.Stop between Lock and Unlock.
Stop(st) ==
  IF ~st.running THEN [st |-> st, err |-> "notRunning"]
  ELSE [st |-> [st EXCEPT !.running = FALSE], err |-> "nil"]

\* _, exists := c.jobs[name]
JobExists(st, name) == st.jobs[name] # 0

\* c.cron.AddFunc(schedule, task): a new entry with the next id, or an
\* error for a schedule that does not parse.
AddFunc(st, valid) ==
  IF ~valid THEN [st |-> st, id |-> 0, err |-> TRUE]
  ELSE [st |-> [st EXCEPT !.entries = @ \cup {st.next}, !.next = @ + 1],
        id |-> st.next, err |-> FALSE]

\* c.jobs[name] = entryID
PutJob(st, name, id) == [st EXCEPT !.jobs[name] = id]

\* A RemoveJob that removes the entry of the cron and keeps the key.
RemoveJobKeepingName(st, name) ==
  IF ~JobExists(st, name) THEN [st |-> st, err |-> "missing"]
  ELSE [st |-> [st EXCEPT !.entries = @ \ {st.jobs[name]}], err |-> "nil"]

\* CronJobManager.RemoveJob between Lock and Unlock.
RemoveJob(st, name) ==
  IF ~JobExists(st, name) THEN [st |-> st, err |-> "missing"]
  ELSE [st |-> [st EXCEPT !.entries = @ \ {st.jobs[name]}, !.jobs[name] = 0],
        err |-> "nil"]

\* sync.RWMutex: Lock returns when no goroutine holds the mutex in either
\* mode, RLock when no goroutine holds it for writing.
NoMgrLock == [w |-> 0, r |-> {}]

MgrLockFreeAlways(l, mode) == TRUE

MgrLockFree(l, mode) == IF mode = "w" THEN l.w = 0 /\ l.r = {} ELSE l.w = 0

MgrModeOf(op) == IF op = "list" THEN "r" ELSE "w"

MgrTake(l, pr, mode) == IF mode = "w" THEN [l EXCEPT !.w = pr] ELSE [l EXCEPT !.r = @ \cup {pr}]

\* defer c.mutex.Unlock() / RUnlock()
MgrRelease(l, pr) == [w |-> IF l.w = pr THEN 0 ELSE l.w, r |-> l.r \ {pr}]

IdleCaller ==
  [pc |-> "idle", op |-> "none", name |-> "", valid |-> TRUE, id |-> 0,
   names |-> <<>>, ret |-> "none", during |-> FALSE]

MgrInit ==
  /\ CycleInit
  /\ served = {"story", "job"}
  /\ sched = NoSched
  /\ repo = NoRepo
  /\ twin = NoTwin
  /\ source = SourceAtStart
  /\ tally = NoTally
  /\ mgr = [at |-> "on", st |-> NewCronJobManager, lock |-> NoMgrLock,
            procs |-> [pr \in MgrProcs |-> IdleCaller], n |-> 0, trail |-> <<>>]

\* A goroutine calls a method of the manager and reaches its Lock / RLock.
MgrCall(pr) ==
  /\ mgr.at = "on"
  /\ mgr.procs[pr].pc = "idle"
  /\ mgr.n < MaxMgrCalls
  /\ \E q \in MgrRequests :
       mgr' = [mgr EXCEPT
                 !.n = @ + 1,
                 !.procs[pr] = [IdleCaller EXCEPT
                                  !.pc = "wait", !.op = q.op, !.name = q.name,
                                  !.valid = q.valid,
                                  !.during = \E o \in MgrProcs \ {pr} :
                                               mgr.procs[o].pc # "idle"]]
  /\ UNCHANGED <<cycleVars, sched, repo, twin, source, tally>>

\* c.mutex.Lock() / c.mutex.RLock() returns.
MgrAcquire(pr) ==
  /\ mgr.at = "on"
  /\ mgr.procs[pr].pc = "wait"
  /\ MgrLockFree(mgr.lock, MgrModeOf(mgr.procs[pr].op))
  /\ mgr' = [mgr EXCEPT !.lock = MgrTake(@, pr, MgrModeOf(mgr.procs[pr].op)),
                        !.procs[pr].pc = "body"]
  /\ UNCHANGED <<cycleVars, sched, repo, twin, source, tally>>

\* The caller returns ret (and names, for ListJobs), the deferred unlock
\* runs; a call that returned nil and changed the manager joins the trail.
MgrReturn(pr, st, ret, names) ==
  mgr' = [mgr EXCEPT
            !.st = st,
            !.lock = MgrRelease(@, pr),
            !.procs[pr] = [@ EXCEPT !.pc = "idle", !.ret = ret, !.names = names],
            !.trail = IF ret = "nil"
                        THEN Append(@, [op |-> mgr.procs[pr].op, name |-> mgr.procs[pr].name])
                        ELSE @]

\* The body of the method up to its return; AddJob stops before
\* c.jobs[name] = entryID, ListJobs reads one key of the map per step.
MgrBody(pr) ==
  /\ mgr.at = "on"
  /\ mgr.procs[pr].pc = "body"
  /\ LET me == mgr.procs[pr]
     IN  CASE me.op = "start" ->
                LET r == Start(mgr.st) IN MgrReturn(pr, r.st, r.err, <<>>)
           [] me.op = "stop" ->
                LET r == Stop(mgr.st) IN MgrReturn(pr, r.st, r.err, <<>>)
           [] me.op = "remove" ->
                LET r == RemoveJob(mgr.st, me.name) IN MgrReturn(pr, r.st, r.err, <<>>)
           [] me.op = "add" ->
                IF JobExists(mgr.st, me.name) THEN MgrReturn(pr, mgr.st, "exists", <<>>)
                ELSE LET r == AddFunc(mgr.st, me.valid)
                     IN  IF r.err THEN MgrReturn(pr, r.st, "addFunc", <<>>)
                         ELSE mgr' = [mgr EXCEPT !.st = r.st, !.procs[pr].pc = "insert",
                                                 !.procs[pr].id = r.id]
           [] me.op = "list" ->
                LET unread == {n \in MgrNames :
                                 JobExists(mgr.st, n) /\ n \notin SeqToSet(me.names)}
                IN  IF unread = {} THEN MgrReturn(pr, mgr.st, "names", me.names)
                    ELSE \E n \in unread :
                           mgr' = [mgr EXCEPT !.procs[pr].names = Append(@, n)]
  /\ UNCHANGED <<cycleVars, sched, repo, twin, source, tally>>

\* c.jobs[name] = entryID; return nil
MgrInsert(pr) ==
  /\ mgr.at = "on"
  /\ mgr.procs[pr].pc = "insert"
  /\ MgrReturn(pr, PutJob(mgr.st, mgr.procs[pr].name, mgr.procs[pr].id), "nil", <<>>)
  /\ UNCHANGED <<cycleVars, sched, repo, twin, source, tally>>

MgrNext ==
  \/ \E pr \in MgrProcs : MgrCall(pr)
  \/ \E pr \in MgrProcs : MgrAcquire(pr)
  \/ \E pr \in MgrProcs : MgrBody(pr)
  \/ \E pr \in MgrProcs : MgrInsert(pr)

MgrSpec == MgrInit /\ [][MgrNext]_vars

\* The step is the return of a call of goroutine pr.
MgrReturned(pr) == mgr.procs[pr].pc # "idle" /\ mgr'.procs[pr].pc = "idle"

\* The Starts and Stops that returned nil, in the order of their return.
Life(trail) == SelectSeq(trail, LAMBDA e : e.op \in {"start", "stop"})

Alternates(l) ==
  \A i \in 1..Len(l) : l[i].op = IF i % 2 = 1 THEN "start" ELSE "stop"

\* C34: Start returns nil exactly when the manager is not running and then
\* sets the flag, Stop returns nil exactly when it is running and then
\* clears it; a Start or Stop that returns an error leaves the manager as
\* it was, neither changes the jobs map, and the Starts and Stops that
\* returned nil alternate, the first being a Start.
C34_StartStopAlternate ==
  [][/\ \A pr \in MgrProcs :
          (MgrReturned(pr) /\ mgr.procs[pr].op \in {"start", "stop"}) =>
            LET ret == mgr'.procs[pr].ret
                isStart == mgr.procs[pr].op = "start"
            IN  /\ (ret = "nil") <=> (mgr.st.running = ~isStart)
                /\ ret = "nil" => mgr'.st.running = isStart
                /\ ret # "nil" => mgr'.st = mgr.st
                /\ mgr'.st.jobs = mgr.st.jobs
     /\ Alternates(Life(mgr'.trail))]_vars

\* Start, Stop and Start have returned nil, and a further Start has
\* returned the error.
C34_Witness ==
  /\ mgr.at = "on"
  /\ Len(Life(mgr.trail)) = 3
  /\ mgr.st.running
  /\ \E pr \in MgrProcs :
       mgr.procs[pr].op = "start" /\ mgr.procs[pr].ret = "running"

\* The names added by a call that returned nil and not removed since by a
\* call that returned nil.
Registered(trail) ==
  {n \in MgrNames :
     \E i \in 1..Len(trail) :
       /\ trail[i] = [op |-> "add", name |-> n]
       /\ \A j \in (i + 1)..Len(trail) : trail[j] # [op |-> "remove", name |-> n]}

KeysOfJobs(st) == {n \in MgrNames : JobExists(st, n)}

\* C35: ListJobs returns the names added and not removed since, each once;
\* AddJob returns the already-exists error exactly for a registered name
\* and nil for an unregistered name with a valid schedule, also after the
\* name was removed; RemoveJob returns an error exactly for an unregistered
\* name; a call that returns an error changes nothing, and Start and Stop
\* leave the registry alone.
C35_RegistryExact ==
  [][\A pr \in MgrProcs :
       MgrReturned(pr) =>
         LET me == mgr.procs[pr]
             ret == mgr'.procs[pr].ret
             names == mgr'.procs[pr].names
             reg == Registered(mgr.trail)
         IN  /\ KeysOfJobs(mgr'.st) = Registered(mgr'.trail)
             /\ me.op = "list" =>
                  /\ SeqToSet(names) = reg
                  /\ Len(names) = Cardinality(reg)
                  /\ mgr'.st = mgr.st
             /\ me.op = "add" =>
                  /\ (ret = "exists") <=> (me.name \in reg)
                  /\ (ret = "nil") <=> (me.name \notin reg /\ me.valid)
                  /\ ret = "nil" => Registered(mgr'.trail) = reg \cup {me.name}
                  /\ ret # "nil" => mgr'.st = mgr.st
             /\ me.op = "remove" =>
                  /\ (ret = "missing") <=> (me.name \notin reg)
                  /\ ret = "nil" => Registered(mgr'.trail) = reg \ {me.name}
                  /\ ret # "nil" => mgr'.st = mgr.st
             /\ me.op \in {"start", "stop"} => mgr'.st.jobs = mgr.st.jobs]_vars

\* "a" was added, removed and added again, and ListJobs has returned it.
C35_Witness ==
  /\ mgr.at = "on"
  /\ mgr.trail = <<[op |-> "add", name |-> "a"], [op |-> "remove", name |-> "a"],
                   [op |-> "add", name |-> "a"]>>
  /\ \E pr \in MgrProcs :
       mgr.procs[pr].op = "list" /\ mgr.procs[pr].ret = "names"
         /\ mgr.procs[pr].names = <<"a">>

\* The goroutines between the return of their Lock / RLock and their
\* unlock, by the mode of the lock.
MgrWriters ==
  {pr \in MgrProcs : mgr.procs[pr].pc \in {"body", "insert"} /\ mgr.procs[pr].op # "list"}

MgrReaders ==
  {pr \in MgrProcs : mgr.procs[pr].pc = "body" /\ mgr.procs[pr].op = "list"}

\* C36: at most one goroutine is inside Start, Stop, AddJob or RemoveJob,
\* and none while a ListJobs reads the map; an AddJob returns nil only for
\* a name no other AddJob has registered, so of several concurrent AddJobs
\* of one new name one returns nil and the others the already-exists
\* error; a ListJobs returns the keys the map holds at its return, which
\* are the names registered by the calls that returned before it.
C36_CallsAreAtomic ==
  [][/\ Cardinality(MgrWriters) <= 1
     /\ MgrWriters # {} => MgrReaders = {}
     /\ \A pr \in MgrProcs :
          MgrReturned(pr) =>
            LET me == mgr.procs[pr]
                ret == mgr'.procs[pr].ret
            IN  /\ (me.op = "add" /\ ret = "nil") => me.name \notin Registered(mgr.trail)
                /\ (me.op = "add" /\ me.valid /\ ret # "nil") =>
                     ret = "exists" /\ me.name \in Registered(mgr.trail)
                /\ me.op = "list" =>
                     /\ SeqToSet(mgr'.procs[pr].names) = KeysOfJobs(mgr.st)
                     /\ KeysOfJobs(mgr.st) = Registered(mgr.trail)]_vars

\* Both goroutines called AddJob("a") with a valid schedule, the second
\* while the call of the first was in progress; one returned nil, the
\* other the already-exists error.
C36_Witness ==
  /\ mgr.at = "on"
  /\ \A pr \in MgrProcs :
       /\ mgr.procs[pr].pc = "idle"
       /\ mgr.procs[pr].op = "add" /\ mgr.procs[pr].name = "a" /\ mgr.procs[pr].valid
  /\ \E pr \in MgrProcs : mgr.procs[pr].during
  /\ {mgr.procs[pr].ret : pr \in MgrProcs} = {"nil", "exists"}
  /\ mgr.n = 2

\* ------------------------------------------------------------------------
\* The tally of already-cached ids of one cycle.  tally.units are the
\* goroutines of the first loop of syncUpdates as far as the tally goes,
\* tally.IDsExistsCount is the slice they append to without a lock,
\* tally.main the main goroutine ("launched": all goroutines started,
\* "waiting": at wg.Wait, "past": wg.Wait has returned) and tally.logged
\* the number the main goroutine has logged (-1: nothing yet).
NewTallyUnit(id) == [id |-> id, pc |-> "start", snap |-> <<>>, out |-> ""]

TallyInit ==
  /\ CycleInit
  /\ served = {"story", "job"}
  /\ sched = NoSched
  /\ repo = NoRepo
  /\ twin = NoTwin
  /\ source = SourceAtStart
  /\ mgr = NoMgr
  /\ \E f \in SeqsUpTo(ItemIDs, MaxIDs) \ {<<>>}, db \in ItemsKeyValues :
       tally = [at |-> "on",
                db |-> [redisDB EXCEPT ![itemsRedisKey] = db],
                units |-> [k \in 1..Len(f) |-> NewTallyUnit(f[k])],
                IDsExistsCount |-> <<>>,
                main |-> "launched",
                logged |-> -1]

\* exists, err := redis.IsItemInCache(...): return on err; on a hit the
\* goroutine goes on to the append; on a miss it goes on to the fetches,
\* which do not touch the tally.
TallyLookup(k) ==
  /\ tally.at = "on"
  /\ k \in DOMAIN tally.units
  /\ tally.units[k].pc = "start"
  /\ \E fault \in BOOLEAN :
       LET look == IsItemInCache(tally.db, itemsRedisKey, tally.units[k].id, fault)
       IN  tally' = [tally EXCEPT
                       !.units[k].pc = IF ~look.err /\ look.exists THEN "read" ELSE "done",
                       !.units[k].out = IF look.err THEN "cacheErr"
                                        ELSE IF look.exists THEN "" ELSE "miss"]
  /\ UNCHANGED <<cycleVars, sched, repo, twin, source, mgr>>

\* IDsExistsCount = append(IDsExistsCount, itemID) without a lock: the
\* goroutine reads the slice ...
TallyRead(k) ==
  /\ tally.at = "on"
  /\ k \in DOMAIN tally.units
  /\ tally.units[k].pc = "read"
  /\ tally' = [tally EXCEPT !.units[k].pc = "write",
                            !.units[k].snap = tally.IDsExistsCount]
  /\ UNCHANGED <<cycleVars, sched, repo, twin, source, mgr>>

\* ... and stores the slice it read with the id added, then returns.
TallyWrite(k) ==
  /\ tally.at = "on"
  /\ k \in DOMAIN tally.units
  /\ tally.units[k].pc = "write"
  /\ tally' = [tally EXCEPT !.units[k].pc = "done",
                            !.units[k].out = "cached",
                            !.units[k].snap = <<>>,
                            !.IDsExistsCount = Append(tally.units[k].snap, tally.units[k].id)]
  /\ UNCHANGED <<cycleVars, sched, repo, twin, source, mgr>>

\* log.Printf("%d Items already Exists", len(IDsExistsCount)), the
\* statement before wg.Wait().
TallyLog ==
  /\ tally.at = "on"
  /\ tally.main = "launched"
  /\ tally' = [tally EXCEPT !.main = "waiting", !.logged = Len(tally.IDsExistsCount)]
  /\ UNCHANGED <<cycleVars, sched, repo, twin, source, mgr>>

\* wg.Wait() returns.
TallyWait ==
  /\ tally.at = "on"
  /\ tally.main = "waiting"
  /\ \A k \in DOMAIN tally.units : tally.units[k].pc = "done"
  /\ tally' = [tally EXCEPT !.main = "past"]
  /\ UNCHANGED <<cycleVars, sched, repo, twin, source, mgr>>

TallyNext ==
  \/ \E k \in 1..MaxIDs : TallyLookup(k)
  \/ \E k \in 1..MaxIDs : TallyRead(k)
  \/ \E k \in 1..MaxIDs : TallyWrite(k)
  \/ TallyLog
  \/ TallyWait

TallySpec == TallyInit /\ [][TallyNext]_vars

\* The units that found their id in the cache.
TallyHits == {k \in DOMAIN tally.units : tally.units[k].out = "cached"}

\* After wg.Wait() the slice holds one entry per unit that found its id
\* cached.
TallySliceExact ==
  (tally.at = "on" /\ tally.main = "past") =>
    /\ Len(tally.IDsExistsCount) = Cardinality(TallyHits)
    /\ \A k \in TallyHits :
         Occurrences(tally.IDsExistsCount, tally.units[k].id)
           = Cardinality({j \in TallyHits : tally.units[j].id = tally.units[k].id})

\* The number logged for the cycle is the number of units that found
\* their id cached.
TallyLoggedCoversAll ==
  (tally.at = "on" /\ tally.main = "past") => tally.logged = Cardinality(TallyHits)

\* C37: when wg.Wait() has returned, every unit that found its id in the
\* cache is counted once in the tally, and the number logged for the cycle
\* is the number of those units.
C37_TallyExact == TallySliceExact /\ TallyLoggedCoversAll

====
